---- MODULE Spec2Model ----
(***************************************************************************)
(* Verification model of the incremental computation core (dice):          *)
(*   - the shared task cache            (dice/src/impls/cache.rs)          *)
(*   - the versioned dependency stores  (dice/src/legacy/incremental/      *)
(*                                       graph/dependencies.rs)            *)
(* and of two of its clients:                                              *)
(*   - the process exit result          (buck2_client_ctx/src/             *)
(*                                       exit_result.rs)                   *)
(*   - the build-file natives           (buck2_build_api/src/interpreter/  *)
(*                                       build_defs.rs)                    *)
(* Each subsystem has its own next-state relation and specification; the   *)
(* variables of the other subsystems stay at their initial value.          *)
(***************************************************************************)
EXTENDS Integers, Naturals, Sequences, FiniteSets, TLC

VARIABLES
    \* ---- SharedCache (cache.rs) ----
    storage,      \* DashMap<DiceKey, DiceTask>: key -> task id, NoTask when absent
    shardLock,    \* per shard: the requester whose Entry holds the write lock, 0 if free
    rpc,          \* per requester: "idle" | "vacant" | "occupied" | "done"
    rkey,         \* per requester: the key passed to get(), 0 before the call
    rview,        \* per requester: what get() returned: "none" | "vacant" | "occupied"
    rtask,        \* per requester: the task it created or joined, NoTask if none
    rabandon,     \* per requester: it dropped a vacant Entry without inserting
    recomputes,   \* per key: how many tasks (recomputes) were started for it
    \* ---- VersionedDependencies (dependencies.rs) ----
    calls,        \* the add_deps calls (version, list) issued against every store
    issued,       \* per store: the calls that have completed at least once
    deps,         \* per store: the field deps, None or Some((version, list))
    writtenVers,  \* per store: the versions at which a snapshot was written
    lastOutcome,  \* per store: what the last call did: "none" | "written" | "kept"
    \* ---- graph nodes behind Arc / Weak, VersionedRevDependencies ----
    strong,       \* per dependent node: its Arc strong count
    owners,       \* per dependent node: the owners (cache, forward edge) holding an Arc
    reclaimed,    \* per dependent node: its value was dropped
    rdeps,        \* per rdep store, per dependent: the HashMap slots holding an Rdep to it
    made,         \* per rdep store: the add_rdep calls (dependent, version) completed
    lastRdep,     \* per rdep store: the add_rdep call completed last, None before the first
    readers,      \* per rdep store: the walkers holding a guard returned by rdeps()
    \* ---- invalidation fan-out over rdeps() ----
    wpc,          \* per walker: "idle" | "walking"
    wver,         \* per walker: the version it dirties at
    wpos,         \* per walker: how many entries of the map it has visited
    wexpect,      \* per walker: the dependents add_rdep had recorded when it took the guard
    dirtied,      \* per dependent node: the versions it was dirtied at
    lastDirty,    \* per dependent node: the version of the last dirty() it received, 0 if none
    prevFan,      \* the fan-out finished before the walker's latest one: Some([ver, expect])
    \* ---- computations committing their computed edges ----
    clock,        \* the version clock: the current VersionNumber
    cpc,          \* per computation: "idle" | "running" | "ok" | "failed" | "linking"
                  \*                  | "committed" | "discarded"
    cver,         \* per computation: the version it started at, 0 before
    cedge,        \* per computation, per target: its Box<dyn ComputedDependency>:
                  \*   "none" | "valid" | "invalid" | "moved" | "linked" | "dropped"
    conv,         \* per computation, per target: the into_dependency calls on that edge
    published,    \* the provenance of every edge handed to add_deps
    \* ---- evaluate(key) on the node, re-validation of its stored edges ----
    lastEval,     \* what the last evaluate did: "none" | "recomputed" | "joined"
                  \*                             | "cached" | "reused"
    resident,     \* per target: its node is resident in the graph (not evicted)
    \* ---- comparison of two edges ----
    edgeA,        \* the left operand of ==
    edgeB,        \* the right operand of ==
    eqOut,        \* the result of the comparison: Some(bool), None before it
    \* ---- ExitResult (exit_result.rs) ----
    xstatus,      \* the i32 passed to status_extended: Some(status), None if not called
    xgiven,       \* the ExitResult report() is called on, NoResult before it exists
    xres,         \* the ExitResult report() is matching on (self)
    xpc,          \* "new" | "report" | "flush_stdout" | "flush_stderr" | "exit"
                  \*       | "exited" | "replaced"
    xcode,        \* the local exit_code of report(), a u8
    xout,         \* io::stdout().flush(): "pending" | "ok" | "err"
    xerr,         \* io::stderr().flush(): "pending" | "ok" | "err"
    xprinted,     \* "Command failed: .." was written to stderr
    xexit,        \* the c_int handed to libc::_exit: Some(code), None before
    xnest,        \* how many report() calls are nested inside the first one
    \* ---- evaluation of one build file: oncall and target declarations ----
    bfOncall,     \* the oncall recorded for the file: Some(name), None if none
    bfTargets,    \* the targets declared so far, in order
    bfError,      \* the error that ended the evaluation: Some(message), None if none
    bfLog,        \* the calls made so far with their outcome
    \* ---- provider(doc = .., fields = ..) calls of one .bzl file ----
    pvArgs,       \* the arguments of the last provider() call: Some([doc, fields]), None before
    pvOut,        \* what that call returned: Some(Ok / Err record), None before
    pvMade,       \* the UserProviderCallable values created so far, in order
    \* ---- callers blocked in add_rdep at self.data.write() ----
    wrWaiting,    \* per rdep store: the add_rdep calls (dependent, version) waiting for the lock
    \* ---- the Arc<Vec<..>> lists behind the snapshots, and the clones handed out ----
    arcs,         \* per Arc (one per add_deps call): the contents of the Vec it points to
    held,         \* per holder: the clone it obtained, Some([via, arc, ver, seen]), None before
    \* ---- comparison of two computed edges, before and after conversion ----
    edgeForm,     \* what edgeA and edgeB are: "stored" | "computed"
    eqComputed    \* the result of == on the computed edges: Some(bool), None before

cacheVars == <<storage, shardLock, rpc, rkey, rview, rtask, rabandon, recomputes>>
depVars == <<calls, issued, deps, writtenVers, lastOutcome>>

nodeVars == <<strong, owners, reclaimed>>
rdepVars == <<rdeps, made, lastRdep, readers>>
walkVars == <<wpc, wver, wpos, wexpect, dirtied, lastDirty, prevFan>>

commitVars == <<clock, cpc, cver, cedge, conv, published>>

evalVars == <<lastEval, resident>>

eqVars == <<edgeA, edgeB, eqOut>>

exitVars == <<xstatus, xgiven, xres, xpc, xcode, xout, xerr, xprinted, xexit, xnest>>

bfVars == <<bfOncall, bfTargets, bfError, bfLog>>

pvVars == <<pvArgs, pvOut, pvMade>>

lockVars == <<wrWaiting>>

arcVars == <<arcs, held>>

ceqVars == <<edgeForm, eqComputed>>

vars == <<cacheVars, depVars, nodeVars, rdepVars, walkVars, commitVars, evalVars, eqVars, exitVars, bfVars, pvVars, lockVars, arcVars, ceqVars>>

(***************************************************************************)
(* Bounds                                                                  *)
(***************************************************************************)
NumKeys == 3
NumRequesters == 3
NumShards == 2
MaxVersion == 3
MaxCalls == 3
NumDependents == 2
MaxRdepCalls == 3
MaxPairCalls == 2
MaxDirtyVersion == 2
StatusSpan == 20
MaxBuildCalls == 5
MaxFields == 3
MaxGuardCalls == 2
MaxProviderCalls == 2

(***************************************************************************)
(* SharedCache                                                             *)
(***************************************************************************)
DiceKeys == 1..NumKeys
Requesters == 1..NumRequesters
Shards == 0..(NumShards - 1)
NoTask == 0

\* A plausible bug: one lock for the whole map
ShardOfSingle(k) == 0

\* DashMap::determine_map: the shard a key's hash selects
ShardOf(k) == k % NumShards

InitCache ==
    /\ storage = [k \in DiceKeys |-> NoTask]
    /\ shardLock = [s \in Shards |-> 0]
    /\ rpc = [r \in Requesters |-> "idle"]
    /\ rkey = [r \in Requesters |-> 0]
    /\ rview = [r \in Requesters |-> "none"]
    /\ rtask = [r \in Requesters |-> NoTask]
    /\ rabandon = [r \in Requesters |-> FALSE]
    /\ recomputes = [k \in DiceKeys |-> 0]

\* no requester
IdleCache == InitCache

\* A plausible bug: looking the key up without taking the shard's write lock
EntryLockFreeRacy(k) == TRUE

\* storage.entry(key) blocks until the write lock of the key's shard is free
EntryLockFree(k) == shardLock[ShardOf(k)] = 0

\* SharedCache::get(key): storage.entry(key). The returned Entry keeps the
\* shard write-locked and is Occupied or Vacant.
CacheGet(r, k) ==
    /\ rpc[r] = "idle"
    /\ EntryLockFree(k)
    /\ shardLock' = [shardLock EXCEPT ![ShardOf(k)] = r]
    /\ rkey' = [rkey EXCEPT ![r] = k]
    /\ IF storage[k] = NoTask
         THEN /\ rpc' = [rpc EXCEPT ![r] = "vacant"]
              /\ rview' = [rview EXCEPT ![r] = "vacant"]
         ELSE /\ rpc' = [rpc EXCEPT ![r] = "occupied"]
              /\ rview' = [rview EXCEPT ![r] = "occupied"]
    /\ UNCHANGED <<storage, rtask, rabandon, recomputes>>
    /\ UNCHANGED <<depVars, nodeVars, rdepVars, walkVars, commitVars, evalVars, eqVars, exitVars, bfVars, pvVars, lockVars, arcVars, ceqVars>>

\* The holder of a Vacant entry inserts a new task (the task is named after
\* its creator) and thereby starts the recompute; the Entry is dropped.
Populate(r) ==
    /\ rpc[r] = "vacant"
    /\ storage' = [storage EXCEPT ![rkey[r]] = r]
    /\ recomputes' = [recomputes EXCEPT ![rkey[r]] = @ + 1]
    /\ rtask' = [rtask EXCEPT ![r] = r]
    /\ shardLock' = [shardLock EXCEPT ![ShardOf(rkey[r])] = 0]
    /\ rpc' = [rpc EXCEPT ![r] = "done"]
    /\ UNCHANGED <<rkey, rview, rabandon>>
    /\ UNCHANGED <<depVars, nodeVars, rdepVars, walkVars, commitVars, evalVars, eqVars, exitVars, bfVars, pvVars, lockVars, arcVars, ceqVars>>

\* The holder of a Vacant entry drops it without inserting.
Abandon(r) ==
    /\ rpc[r] = "vacant"
    /\ rabandon' = [rabandon EXCEPT ![r] = TRUE]
    /\ shardLock' = [shardLock EXCEPT ![ShardOf(rkey[r])] = 0]
    /\ rpc' = [rpc EXCEPT ![r] = "done"]
    /\ UNCHANGED <<storage, rkey, rview, rtask, recomputes>>
    /\ UNCHANGED <<depVars, nodeVars, rdepVars, walkVars, commitVars, evalVars, eqVars, exitVars, bfVars, pvVars, lockVars, arcVars, ceqVars>>

\* The holder of an Occupied entry joins the task stored there; the Entry is dropped.
Join(r) ==
    /\ rpc[r] = "occupied"
    /\ rtask' = [rtask EXCEPT ![r] = storage[rkey[r]]]
    /\ shardLock' = [shardLock EXCEPT ![ShardOf(rkey[r])] = 0]
    /\ rpc' = [rpc EXCEPT ![r] = "done"]
    /\ UNCHANGED <<storage, rkey, rview, rabandon, recomputes>>
    /\ UNCHANGED <<depVars, nodeVars, rdepVars, walkVars, commitVars, evalVars, eqVars, exitVars, bfVars, pvVars, lockVars, arcVars, ceqVars>>

\* A plausible bug: a slot handed out vacant is counted before it is populated
ActiveTasksCountWithVacant ==
    Cardinality({k \in DiceKeys :
        storage[k] # NoTask \/ \E r \in Requesters : rpc[r] = "vacant" /\ rkey[r] = k})

\* SharedCache::active_tasks_count(): storage.len()
ActiveTasksCount == Cardinality({k \in DiceKeys : storage[k] # NoTask})

NextCache ==
    \/ \E r \in Requesters, k \in DiceKeys : CacheGet(r, k)
    \/ \E r \in Requesters : Populate(r)
    \/ \E r \in Requesters : Abandon(r)
    \/ \E r \in Requesters : Join(r)

(***************************************************************************)
(* VersionedDependencies: the forward-dependency store of a node           *)
(***************************************************************************)
VersionNumbers == 1..MaxVersion
\* Arc<Vec<Box<dyn Dependency>>>: the list of target keys; two distinct lists
\* tell two snapshots of one version apart
DepLists == {<<1>>, <<1, 2>>}
\* two stores that receive the same calls, each in its own arrival order
Stores == {1, 2}
None == <<>>
Some(x) == <<x>>
AddDepsCalls == [v : VersionNumbers, d : DepLists]

\* VersionedDependencies::new()
FreshDeps ==
    /\ issued = [n \in Stores |-> {}]
    /\ deps = [n \in Stores |-> None]
    /\ writtenVers = [n \in Stores |-> {}]
    /\ lastOutcome = [n \in Stores |-> "none"]

\* the calls the callers are going to make are drawn here
InitDeps ==
    /\ calls \in {cs \in SUBSET AddDepsCalls : Cardinality(cs) \in 1..MaxCalls}
    /\ FreshDeps

\* no caller
IdleDeps ==
    /\ calls = {}
    /\ FreshDeps

\* A plausible bug: the last writer wins
ShouldReplaceLastWriter(cur, v) == TRUE

\* A plausible bug: only the first snapshot is ever stored
ShouldReplaceFirstOnly(cur, v) == cur = None

\* A plausible bug: an equal version replaces too
ShouldReplaceGeq(cur, v) == cur = None \/ v >= cur[1].v

\* this_deps.as_ref().map_or(true, |d| v > d.0)
ShouldReplace(cur, v) == cur = None \/ v > cur[1].v

\* VersionedDependencies::add_deps(v, deps): the write lock is held from the
\* first line to the return, so the test and the assignment are one step.
AddDepsWrite(n, c) ==
    /\ c \in calls
    /\ IF ShouldReplace(deps[n], c.v)
         THEN /\ deps' = [deps EXCEPT ![n] = Some(c)]
              /\ writtenVers' = [writtenVers EXCEPT ![n] = @ \cup {c.v}]
              /\ lastOutcome' = [lastOutcome EXCEPT ![n] = "written"]
         ELSE /\ UNCHANGED <<deps, writtenVers>>
              /\ lastOutcome' = [lastOutcome EXCEPT ![n] = "kept"]
    /\ issued' = [issued EXCEPT ![n] = @ \cup {c}]
    /\ UNCHANGED calls

\* add_deps called on its own
AddDeps(n, c) ==
    /\ AddDepsWrite(n, c)
    /\ UNCHANGED <<cacheVars, commitVars, nodeVars, rdepVars, walkVars, evalVars, eqVars, exitVars, bfVars, pvVars, lockVars, arcVars, ceqVars>>

\* VersionedDependencies::deps(): the list of the stored snapshot, if any
DepsOf(n) == IF deps[n] = None THEN None ELSE Some(deps[n][1].d)

NextDeps ==
    \E n \in Stores, c \in AddDepsCalls : AddDeps(n, c)

(***************************************************************************)
(* Graph nodes: Arc<dyn GraphNodeDyn> and Weak<dyn GraphNodeDyn>           *)
(***************************************************************************)
Dependents == 1..NumDependents
\* who may hold an Arc to a node: the cache that produced it, a stored forward edge
OwnerKinds == {"cache", "edge"}

\* every node starts owned by the cache that produced it
InitNodes ==
    /\ strong = [d \in Dependents |-> 1]
    /\ owners = [d \in Dependents |-> {"cache"}]
    /\ reclaimed = [d \in Dependents |-> FALSE]

\* Arc::clone by a new owner; only a holder of an Arc can clone it
CloneArc(d, o) ==
    /\ owners[d] # {}
    /\ o \notin owners[d]
    /\ owners' = [owners EXCEPT ![d] = @ \cup {o}]
    /\ strong' = [strong EXCEPT ![d] = @ + 1]
    /\ UNCHANGED <<reclaimed, cacheVars, commitVars, depVars, rdepVars, walkVars, evalVars, eqVars, exitVars, bfVars, pvVars, lockVars, arcVars, ceqVars>>

\* drop of an owner's Arc; the node's value is dropped with the last strong reference
DropArc(d, o) ==
    /\ o \in owners[d]
    /\ owners' = [owners EXCEPT ![d] = @ \ {o}]
    /\ strong' = [strong EXCEPT ![d] = @ - 1]
    /\ reclaimed' = [reclaimed EXCEPT ![d] = strong[d] = 1]
    /\ UNCHANGED <<cacheVars, commitVars, depVars, rdepVars, walkVars, evalVars, eqVars, exitVars, bfVars, pvVars, lockVars, arcVars, ceqVars>>

\* Weak::upgrade: Some(node) while a strong reference exists, None afterwards
Upgrade(d) == IF strong[d] > 0 THEN Some(d) ELSE None

(***************************************************************************)
(* Rdep and VersionedRevDependencies                                       *)
(***************************************************************************)
RevStores == {1, 2}
RdepCalls == Dependents \X VersionNumbers

\* A plausible bug: hashing the address kept in the Weak itself
RdepHashByAddress(d) == Some(d)

\* impl Hash for Rdep: self.0.upgrade().map(|p| Arc::as_ptr(&p)).hash(state)
RdepHash(d) == Upgrade(d)

\* impl PartialEq for Rdep: Weak::ptr_eq
RdepEq(d1, d2) == d1 = d2

\* A plausible bug: an Rdep that holds an Arc
StrongWithRdepOwning(n) == n + 1

\* struct Rdep(Weak<dyn GraphNodeDyn>): the strong count of a node once an Rdep
\* to it is stored; a Weak adds no strong reference
StrongWithRdep(n) == n

\* VersionedRevDependencies::new()
InitRdeps ==
    /\ rdeps = [m \in RevStores |-> [d \in Dependents |-> <<>>]]
    /\ made = [m \in RevStores |-> {}]
    /\ lastRdep = [m \in RevStores |-> None]
    /\ readers = [m \in RevStores |-> {}]

\* The slots of store m a lookup of an Rdep to d can end at: a slot whose key
\* is equal and was stored under the hash the key has now is found; a slot
\* stored under another hash lies elsewhere in the table and is found only if
\* the probe happens to pass it; 0 stands for Entry::Vacant.
EntryOutcomes(m, d) ==
    LET slots == rdeps[m][d]
        here == {i \in 1..Len(slots) : slots[i].h = RdepHash(d)}
    IN  {i \in 1..Len(slots) : RdepEq(slots[i].key, d)}
            \cup (IF here = {} THEN {0} ELSE {})

\* A plausible bug: the last writer wins
ShouldBumpLastWriter(old, new) == TRUE

\* if *entry.get() < current_version
ShouldBump(old, new) == old < new

\* A plausible bug: growing the table prunes the entries whose Weak is dead
RehashedPruningDead(m) ==
    [d \in Dependents |->
        IF Upgrade(d) = None THEN <<>>
        ELSE [i \in 1..Len(rdeps[m][d]) |-> [rdeps[m][d][i] EXCEPT !.h = RdepHash(d)]]]

\* growing the table re-inserts every key under the hash it has at that time
Rehashed(m) ==
    [d \in Dependents |->
        [i \in 1..Len(rdeps[m][d]) |-> [rdeps[m][d][i] EXCEPT !.h = RdepHash(d)]]]

\* A plausible bug: the vacant entry is dropped without inserting
InsertSlotForgotten(table, d, v) == table

\* v.insert(current_version): a new slot, stored under the hash the key has now
InsertSlot(table, d, v) ==
    [table EXCEPT ![d] = Append(@, [key |-> d, h |-> RdepHash(d), ver |-> v])]

\* A plausible bug: the writer does not wait for the read guards
WriteLockFreeRacy(m) == TRUE

\* self.data.write() returns once no read guard of the store is held
WriteLockFree(m) == readers[m] = {}

\* VersionedRevDependencies::add_rdep(dependent, current_version), under the
\* write lock of the store: data.rdeps.entry(Rdep(dependent)), then bump or insert.
AddRdepWrite(m, d, v) ==
    /\ WriteLockFree(m)
    /\ \E o \in EntryOutcomes(m, d) :
        IF o # 0
          THEN \* Entry::Occupied
               /\ rdeps' = [rdeps EXCEPT ![m][d][o].ver =
                                IF ShouldBump(@, v) THEN v ELSE @]
               /\ UNCHANGED strong
          ELSE \* Entry::Vacant; the insert may grow the table
               /\ \E grow \in BOOLEAN :
                    LET table == IF grow THEN Rehashed(m) ELSE rdeps[m]
                    IN  rdeps' = [rdeps EXCEPT ![m] = InsertSlot(table, d, v)]
               /\ strong' = [strong EXCEPT ![d] = StrongWithRdep(@)]
    /\ made' = [made EXCEPT ![m] = @ \cup {<<d, v>>}]
    /\ lastRdep' = [lastRdep EXCEPT ![m] = Some(<<d, v>>)]
    /\ UNCHANGED <<owners, reclaimed, readers>>

\* add_rdep called on its own
AddRdep(m, d, v) ==
    /\ AddRdepWrite(m, d, v)
    /\ UNCHANGED <<cacheVars, commitVars, depVars, walkVars, evalVars, eqVars, exitVars, bfVars, pvVars, lockVars, arcVars, ceqVars>>

\* the map seen through rdeps(): per dependent, how many entries it has at each version
RdepsView(m) ==
    [d \in Dependents |-> [v \in VersionNumbers |->
        Cardinality({i \in 1..Len(rdeps[m][d]) : rdeps[m][d][i].ver = v})]]

\* the entries of the map in the order an iteration yields them
RECURSIVE EntriesFrom(_, _)
EntriesFrom(m, d) ==
    IF d > NumDependents THEN <<>> ELSE rdeps[m][d] \o EntriesFrom(m, d + 1)
RdepEntries(m) == EntriesFrom(m, 1)

\* the budget of distinct calls one store receives
WithinBudget(m, d, v, budget) == Cardinality(made[m] \cup {<<d, v>>}) <= budget

(***************************************************************************)
(* Invalidation fan-out: walk rdeps() and dirty every dependent still alive *)
(***************************************************************************)
Walkers == {1, 2}

InitWalk ==
    /\ wpc = [w \in Walkers |-> "idle"]
    /\ wver = [w \in Walkers |-> 0]
    /\ wpos = [w \in Walkers |-> 0]
    /\ wexpect = [w \in Walkers |-> {}]
    /\ dirtied = [d \in Dependents |-> {}]
    /\ lastDirty = [d \in Dependents |-> 0]
    /\ prevFan = None

DirtyVersions == 1..MaxDirtyVersion

\* Dependency::dirty(v) on a node: it is marked dirty as of v
Dirty(d, v) == [dirtied EXCEPT ![d] = @ \cup {v}]

\* VersionedRevDependencies::rdeps(): self.data.read(); the guard is kept for the walk
RdepsRead(w, v) ==
    /\ wpc[w] = "idle"
    /\ readers' = [readers EXCEPT ![1] = @ \cup {w}]
    /\ wpc' = [wpc EXCEPT ![w] = "walking"]
    /\ wver' = [wver EXCEPT ![w] = v]
    /\ wpos' = [wpos EXCEPT ![w] = 0]
    /\ wexpect' = [wexpect EXCEPT ![w] = {c[1] : c \in made[1]}]
    /\ prevFan' = IF wver[w] = 0 THEN None
                   ELSE Some([ver |-> wver[w], expect |-> wexpect[w]])
    /\ UNCHANGED <<dirtied, lastDirty, rdeps, made, lastRdep>>
    /\ UNCHANGED <<cacheVars, commitVars, depVars, nodeVars, evalVars, eqVars, exitVars, bfVars, pvVars, lockVars, arcVars, ceqVars>>

\* one entry of the walk: upgrade the Rdep and dirty the dependent if it is alive
WalkStep(w) ==
    /\ wpc[w] = "walking"
    /\ wpos[w] < Len(RdepEntries(1))
    /\ LET d == RdepEntries(1)[wpos[w] + 1].key
       IN  IF Upgrade(d) # None
             THEN /\ dirtied' = Dirty(d, wver[w])
                  /\ lastDirty' = [lastDirty EXCEPT ![d] = wver[w]]
             ELSE UNCHANGED <<dirtied, lastDirty>>
    /\ wpos' = [wpos EXCEPT ![w] = @ + 1]
    /\ UNCHANGED <<wpc, wver, wexpect, prevFan>>
    /\ UNCHANGED <<cacheVars, commitVars, depVars, nodeVars, rdepVars, evalVars, eqVars, exitVars, bfVars, pvVars, lockVars, arcVars, ceqVars>>

\* the walk is over and the guard is dropped
WalkEnd(w) ==
    /\ wpc[w] = "walking"
    /\ wpos[w] = Len(RdepEntries(1))
    /\ readers' = [readers EXCEPT ![1] = @ \ {w}]
    /\ wpc' = [wpc EXCEPT ![w] = "idle"]
    /\ UNCHANGED <<wver, wpos, wexpect, dirtied, lastDirty, prevFan>>
    /\ UNCHANGED <<rdeps, made, lastRdep>>
    /\ UNCHANGED <<cacheVars, commitVars, depVars, nodeVars, evalVars, eqVars, exitVars, bfVars, pvVars, lockVars, arcVars, ceqVars>>

NextRdeps ==
    \/ \E d \in Dependents, v \in VersionNumbers :
            WithinBudget(1, d, v, MaxRdepCalls) /\ AddRdep(1, d, v)
    \/ \E d \in Dependents : DropArc(d, "cache")

\* edges are recorded and dependents dropped around one invalidation walk
NextRdepsRead ==
    \/ \E d \in Dependents, v \in 1..MaxPairCalls :
            WithinBudget(1, d, v, MaxPairCalls) /\ AddRdep(1, d, v)
    \/ \E d \in Dependents : DropArc(d, "cache")
    \/ wver[1] = 0 /\ RdepsRead(1, 1)
    \/ WalkStep(1)
    \/ WalkEnd(1)

NextRdepsPair ==
    \/ \E m \in RevStores, d \in Dependents, v \in VersionNumbers :
            WithinBudget(m, d, v, MaxPairCalls) /\ AddRdep(m, d, v)
    \/ \E d \in Dependents : DropArc(d, "cache")

\* a node is dirtied twice, by one invalidator; the version an edge was recorded
\* at plays no part in the walk
NextFanout ==
    \/ \E d \in Dependents : AddRdep(1, d, 1)
    \/ \E d \in Dependents : DropArc(d, "cache")
    \/ \E v \in DirtyVersions : prevFan = None /\ RdepsRead(1, v)
    \/ WalkStep(1)
    \/ WalkEnd(1)

\* the owners of the dependents come and go around one fan-out version
NextOwnership ==
    \/ \E d \in Dependents : AddRdep(1, d, 1)
    \/ \E d \in Dependents, o \in OwnerKinds : CloneArc(d, o)
    \/ \E d \in Dependents, o \in OwnerKinds : DropArc(d, o)
    \/ RdepsRead(1, 1)
    \/ WalkStep(1)
    \/ WalkEnd(1)

(***************************************************************************)
(* add_rdep and rdeps() contending for the RwLock of one node's store      *)
(***************************************************************************)
InitLock == wrWaiting = [m \in RevStores |-> {}]

IdleLock == InitLock

\* add_rdep is called by the thread recording edges and parks in
\* self.data.write(); the thread makes its calls one after the other
AddRdepCall(m, d, v) ==
    /\ wrWaiting[m] = {}
    /\ Cardinality(made[m] \cup {<<d, v>>}) <= MaxGuardCalls
    /\ wrWaiting' = [wrWaiting EXCEPT ![m] = @ \cup {<<d, v>>}]
    /\ UNCHANGED <<cacheVars, commitVars, depVars, nodeVars, rdepVars, walkVars, evalVars, eqVars, exitVars, bfVars, pvVars, arcVars, ceqVars>>

\* the parked add_rdep gets the write lock, updates the map and returns
AddRdepLocked(m, d, v) ==
    /\ <<d, v>> \in wrWaiting[m]
    /\ AddRdepWrite(m, d, v)
    /\ wrWaiting' = [wrWaiting EXCEPT ![m] = @ \ {<<d, v>>}]
    /\ UNCHANGED <<cacheVars, commitVars, depVars, walkVars, evalVars, eqVars, exitVars, bfVars, pvVars, arcVars, ceqVars>>

\* rdeps() under parking_lot's task-fair policy: a reader arriving while a
\* writer is parked queues behind it
RdepsReadQueued(w, v) ==
    /\ wrWaiting[1] = {}
    /\ RdepsRead(w, v)

\* the versions the calls of one run carry: the clock moves at most once per call
GuardVersions == 1..MaxGuardCalls

NextGuard ==
    \/ \E d \in Dependents, v \in GuardVersions : AddRdepCall(1, d, v)
    \/ \E d \in Dependents, v \in GuardVersions : AddRdepLocked(1, d, v)
    \/ \E w \in Walkers : wver[w] = 0 /\ RdepsReadQueued(w, 1)
    \/ \E w \in Walkers : WalkStep(w)
    \/ \E w \in Walkers : WalkEnd(w)

\* every thread keeps running: a walk goes on to its end and drops its guard,
\* and a parked writer takes the lock when it is free
FairGuard ==
    /\ \A w \in Walkers : WF_vars(WalkStep(w)) /\ WF_vars(WalkEnd(w))
    /\ WF_vars(\E d \in Dependents, v \in GuardVersions : AddRdepLocked(1, d, v))

(***************************************************************************)
(* The lists behind the snapshots: Arc<Vec<Box<dyn Dependency>>>           *)
(***************************************************************************)
\* the callers that keep what deps() or debug_deps() gave them
Holders == {1, 2}

\* every add_deps call brings its own Arc, pointing to the list it was built with
InitArcs ==
    /\ arcs = [c \in AddDepsCalls |-> c.d]
    /\ held = [h \in Holders |-> None]

IdleArcs == InitArcs

\* A plausible bug: the new list is written into the Vec already stored
ListsAfterStoreInPlace(heap, cur, c) ==
    IF cur = None THEN heap ELSE [heap EXCEPT ![cur[1]] = c.d]

\* *this_deps = Some((v, deps)): the Arc is moved into the field; no Vec is written
ListsAfterStore(heap, cur, c) == heap

\* add_deps on store 1, with the lists the Arcs point to
AddDepsShared(c) ==
    /\ AddDepsWrite(1, c)
    /\ arcs' = IF ShouldReplace(deps[1], c.v) THEN ListsAfterStore(arcs, deps[1], c) ELSE arcs
    /\ UNCHANGED held
    /\ UNCHANGED <<cacheVars, commitVars, nodeVars, rdepVars, walkVars, evalVars, eqVars, exitVars, bfVars, pvVars, lockVars, ceqVars>>

\* deps(): self.deps.read().as_ref().map(|d| d.1.dupe()), kept by holder h
DepsRead(h) ==
    /\ deps[1] # None
    /\ held' = [held EXCEPT ![h] = Some([via |-> "deps", arc |-> deps[1][1], ver |-> 0,
                                         seen |-> arcs[deps[1][1]]])]
    /\ UNCHANGED arcs
    /\ UNCHANGED <<cacheVars, depVars, commitVars, nodeVars, rdepVars, walkVars, evalVars, eqVars, exitVars, bfVars, pvVars, lockVars, ceqVars>>

\* debug_deps().read(): the version and the list are read under one read lock
DebugDepsRead(h) ==
    /\ deps[1] # None
    /\ held' = [held EXCEPT ![h] = Some([via |-> "debug_deps", arc |-> deps[1][1],
                                         ver |-> deps[1][1].v, seen |-> arcs[deps[1][1]]])]
    /\ UNCHANGED arcs
    /\ UNCHANGED <<cacheVars, depVars, commitVars, nodeVars, rdepVars, walkVars, evalVars, eqVars, exitVars, bfVars, pvVars, lockVars, ceqVars>>

NextSnapshot ==
    \/ \E c \in AddDepsCalls : AddDepsShared(c)
    \/ \E h \in Holders : DepsRead(h)
    \/ \E h \in Holders : DebugDepsRead(h)

(***************************************************************************)
(* Computations: computed edges, the validity check and the commit         *)
(***************************************************************************)
\* two evaluations of the same node, the second started after a write
Computations == {1, 2}
\* the node being evaluated, and the keys an evaluation may request
NodeA == 1
Targets == RevStores

InitCommit ==
    /\ clock = 1
    /\ cpc = [c \in Computations |-> "idle"]
    /\ cver = [c \in Computations |-> 0]
    /\ cedge = [c \in Computations |-> [t \in Targets |-> "none"]]
    /\ conv = [c \in Computations |-> [t \in Targets |-> 0]]
    /\ published = {}
    /\ lastEval = "none"
    /\ resident = [t \in Targets |-> TRUE]

\* every add_deps call is open to a committing computation
AnyDeps ==
    /\ calls = AddDepsCalls
    /\ FreshDeps

\* A plausible bug: the commit does not look at the validity of its edges
IsValidUnchecked(e) == TRUE

\* ComputedDependency::is_valid
IsValid(e) == e = "valid"

\* the computed edges a computation still holds
Held(c) == {t \in Targets : cedge[c][t] \in {"valid", "invalid"}}

\* the forward list made of the held edges: <<1>> or <<1, 2>>
HeldList(c) == IF 2 \in Held(c) THEN <<1, 2>> ELSE <<1>>

\* an evaluation of the node starts at the current version; the task cache
\* admits one evaluation of a key per version
StartRun(c) ==
    /\ cpc[c] = "idle"
    /\ \A c2 \in Computations : cver[c2] # clock
    /\ cpc' = [cpc EXCEPT ![c] = "running"]
    /\ cver' = [cver EXCEPT ![c] = clock]
    /\ UNCHANGED <<clock, cedge, conv, published>>
    /\ UNCHANGED <<cacheVars, depVars, nodeVars, rdepVars, walkVars, eqVars, exitVars, bfVars, pvVars, lockVars, arcVars, ceqVars>>

\* a computation started on its own
Start(c) ==
    /\ StartRun(c)
    /\ UNCHANGED evalVars

\* the running computation requests a key and holds a computed edge to it
Request(c, t) ==
    /\ cpc[c] = "running"
    /\ cedge[c][t] = "none"
    /\ t = 1 \/ cedge[c][1] # "none"
    /\ cedge' = [cedge EXCEPT ![c][t] = IF cver[c] = clock THEN "valid" ELSE "invalid"]
    /\ UNCHANGED <<clock, cpc, cver, conv, published>>
    /\ UNCHANGED <<cacheVars, depVars, nodeVars, rdepVars, walkVars, evalVars, eqVars, exitVars, bfVars, pvVars, lockVars, arcVars, ceqVars>>

\* record_write(t): the clock advances, t is dirtied at the new version and
\* the computed edges of the computations in flight are no longer valid
RecordWrite(t) ==
    /\ clock < MaxVersion
    /\ clock' = clock + 1
    /\ cedge' = [c \in Computations |-> [u \in Targets |->
                    IF cedge[c][u] = "valid" THEN "invalid" ELSE cedge[c][u]]]
    /\ dirtied' = Dirty(t, clock + 1)
    /\ lastDirty' = [lastDirty EXCEPT ![t] = clock + 1]
    /\ UNCHANGED <<cpc, cver, conv, published>>
    /\ UNCHANGED <<wpc, wver, wpos, wexpect, prevFan>>
    /\ UNCHANGED <<cacheVars, depVars, nodeVars, rdepVars, evalVars, eqVars, exitVars, bfVars, pvVars, lockVars, arcVars, ceqVars>>

\* the recompute function returns, with a value or with an error
Finish(c, ok) ==
    /\ cpc[c] = "running"
    /\ cedge[c][1] # "none"
    /\ cpc' = [cpc EXCEPT ![c] = IF ok THEN "ok" ELSE "failed"]
    /\ UNCHANGED <<clock, cver, cedge, conv, published>>
    /\ UNCHANGED <<cacheVars, depVars, nodeVars, rdepVars, walkVars, evalVars, eqVars, exitVars, bfVars, pvVars, lockVars, arcVars, ceqVars>>

\* ComputedDependency::into_dependency(self: Box<Self>): the box is moved into
\* the call, so the computed edge is gone once it has been converted
IntoDependency(c, ts) ==
    /\ cedge' = [cedge EXCEPT ![c] = [t \in Targets |->
                    IF t \in ts THEN "moved" ELSE cedge[c][t]]]
    /\ conv' = [conv EXCEPT ![c] = [t \in Targets |->
                    IF t \in ts THEN conv[c][t] + 1 ELSE conv[c][t]]]

\* the end of a computation: when it succeeded and every computed edge is
\* valid, the edges are converted and stored with add_deps; otherwise they
\* are dropped and nothing is stored
Commit(c) ==
    /\ cpc[c] \in {"ok", "failed"}
    /\ IF cpc[c] = "ok" /\ \A t \in Held(c) : IsValid(cedge[c][t])
         THEN /\ IntoDependency(c, Held(c))
              /\ AddDepsWrite(NodeA, [v |-> cver[c], d |-> HeldList(c)])
              /\ published' = published \cup
                    {[comp |-> c, target |-> t, ver |-> cver[c], at |-> clock,
                      valid |-> cedge[c][t] = "valid", ok |-> cpc[c] = "ok"] :
                        t \in Held(c)}
              /\ cpc' = [cpc EXCEPT ![c] = "linking"]
         ELSE /\ cedge' = [cedge EXCEPT ![c] = [t \in Targets |->
                            IF t \in Held(c) THEN "dropped" ELSE cedge[c][t]]]
              /\ cpc' = [cpc EXCEPT ![c] = "discarded"]
              /\ UNCHANGED <<conv, published, depVars>>
    /\ UNCHANGED <<clock, cver>>
    /\ UNCHANGED <<cacheVars, nodeVars, rdepVars, walkVars, evalVars, eqVars, exitVars, bfVars, pvVars, lockVars, arcVars, ceqVars>>

\* the committed computation records the reverse edge at one of its targets
LinkRdep(c, t) ==
    /\ cpc[c] = "linking"
    /\ cedge[c][t] = "moved"
    /\ AddRdepWrite(t, NodeA, cver[c])
    /\ cedge' = [cedge EXCEPT ![c][t] = "linked"]
    /\ cpc' = [cpc EXCEPT ![c] =
                IF \A u \in Targets \ {t} : cedge[c][u] # "moved"
                  THEN "committed" ELSE "linking"]
    /\ UNCHANGED <<clock, cver, conv, published>>
    /\ UNCHANGED <<cacheVars, depVars, walkVars, evalVars, eqVars, exitVars, bfVars, pvVars, lockVars, arcVars, ceqVars>>

NextCommit ==
    \/ \E c \in Computations : Start(c)
    \/ \E c \in Computations, t \in Targets : Request(c, t)
    \/ \E t \in Targets : RecordWrite(t)
    \/ \E c \in Computations, ok \in BOOLEAN : Finish(c, ok)
    \/ \E c \in Computations : Commit(c)
    \/ \E c \in Computations, t \in Targets : LinkRdep(c, t)

(***************************************************************************)
(* evaluate(key): cached result, re-validation of the stored edges,        *)
(* recompute                                                               *)
(***************************************************************************)
\* A plausible bug: the node is handed out although it was evicted
LookupNodeStale(t) == Some(t)

\* Dependency::lookup_node(v, mv) -> Option<Arc<dyn GraphNodeDyn>>: the target
\* node if it is resident, None if it was evicted; the type has no error case
LookupNode(t) == IF resident[t] THEN Some(t) ELSE None

\* the target was dirtied after version v
ChangedSince(t, v) == lastDirty[t] > v

\* the computation of the node at the current version, if there is one
TaskAt(v) == {c \in Computations : cver[c] = v}

\* re-validation of the stored snapshot: an edge whose target is gone is
\* unresolved, an edge whose target changed is out of date
MustRecompute ==
    \/ deps[NodeA] = None
    \/ \E i \in 1..Len(deps[NodeA][1].d) :
          \/ LookupNode(deps[NodeA][1].d[i]) = None
          \/ ChangedSince(deps[NodeA][1].d[i], deps[NodeA][1].v)

\* evaluate(A): the result of the current version is returned if there is one
\* (or its task is joined); otherwise the stored edges are re-validated and
\* the node is recomputed only if that fails
Evaluate ==
    /\ IF TaskAt(clock) # {}
         THEN /\ lastEval' = IF \E c \in TaskAt(clock) : cpc[c] \in {"linking", "committed"}
                               THEN "cached" ELSE "joined"
              /\ UNCHANGED commitVars
         ELSE IF ~MustRecompute
           THEN /\ lastEval' = "reused"
                /\ UNCHANGED commitVars
           ELSE /\ \E c \in Computations :
                     /\ \A c2 \in Computations : c2 < c => cpc[c2] # "idle"
                     /\ StartRun(c)
                /\ lastEval' = "recomputed"
    /\ UNCHANGED resident
    /\ UNCHANGED <<cacheVars, depVars, nodeVars, rdepVars, walkVars, eqVars, exitVars, bfVars, pvVars, lockVars, arcVars, ceqVars>>

\* the node of a target is evicted from the graph
Evict(t) ==
    /\ resident[t]
    /\ resident' = [resident EXCEPT ![t] = FALSE]
    /\ UNCHANGED lastEval
    /\ UNCHANGED <<cacheVars, depVars, nodeVars, rdepVars, walkVars, commitVars, eqVars, exitVars, bfVars, pvVars, lockVars, arcVars, ceqVars>>

NextEvaluate ==
    \/ Evaluate
    \/ \E c \in Computations, t \in Targets : Request(c, t)
    \/ \E t \in Targets : RecordWrite(t)
    \/ \E c \in Computations, ok \in BOOLEAN : Finish(c, ok)
    \/ \E c \in Computations : Commit(c)
    \/ \E c \in Computations, t \in Targets : LinkRdep(c, t)
    \/ \E t \in Targets : Evict(t)

(***************************************************************************)
(* Equality of edges: impl PartialEq for dyn Dependency                    *)
(***************************************************************************)
\* the concrete key types hidden behind PartialEqAny
KeyTypes == {"KeyT", "KeyU"}
\* a type-erased key: PartialEqAny compares the type and then the value
ErasedKeys == [ty : KeyTypes, id : DiceKeys]
\* a stored edge: the key of its target and the version it was recorded at
StoredEdges == [key : ErasedKeys, ver : VersionNumbers]

\* no comparison is going on
IdleEq ==
    /\ edgeA = [key |-> [ty |-> "KeyT", id |-> 1], ver |-> 1]
    /\ edgeB = [key |-> [ty |-> "KeyT", id |-> 1], ver |-> 1]
    /\ eqOut = None

\* two stored edges are about to be compared
InitEq ==
    /\ edgeA \in StoredEdges
    /\ edgeB \in StoredEdges
    /\ eqOut = None

\* Dependency::get_key_equality(&self) -> PartialEqAny: the key alone
GetKeyEquality(e) == e.key

\* A plausible bug: comparing the recorded version as well
DependencyEqWithVersion(a, b) == a = b

\* impl PartialEq for dyn Dependency:
\* self.get_key_equality() == other.get_key_equality()
DependencyEq(a, b) == GetKeyEquality(a) = GetKeyEquality(b)

\* edgeA == edgeB
CompareStored ==
    /\ eqOut = None
    /\ eqOut' = Some(DependencyEq(edgeA, edgeB))
    /\ UNCHANGED <<edgeA, edgeB>>
    /\ UNCHANGED <<cacheVars, depVars, nodeVars, rdepVars, walkVars, commitVars, evalVars, exitVars, bfVars, pvVars, lockVars, arcVars, ceqVars>>

NextEq == CompareStored

(***************************************************************************)
(* Comparison of two computed edges (dyn ComputedDependency)               *)
(***************************************************************************)
\* a computed edge: the key requested, the version it was observed at and
\* whether the observation is still valid
ComputedEdges == [key : ErasedKeys, ver : VersionNumbers, valid : BOOLEAN]

\* the operands are stored edges and no computed edge was compared
IdleComputedEq ==
    /\ edgeForm = "stored"
    /\ eqComputed = None

\* two computed edges are about to be compared
InitComputedEq ==
    /\ edgeA \in ComputedEdges
    /\ edgeB \in ComputedEdges
    /\ eqOut = None
    /\ edgeForm = "computed"
    /\ eqComputed = None

\* ComputedDependency::get_key_equality(&self) -> (PartialEqAny, VersionNumber)
ComputedGetKeyEquality(e) == <<e.key, e.ver>>

\* A plausible bug: comparing the key alone, as for stored edges
ComputedDependencyEqByKey(a, b) == a.key = b.key

\* impl PartialEq for dyn ComputedDependency:
\* self.get_key_equality() == other.get_key_equality()
ComputedDependencyEq(a, b) == ComputedGetKeyEquality(a) = ComputedGetKeyEquality(b)

\* ComputedDependency::into_dependency: the stored form of the edge
IntoDependencyOf(e) == [key |-> e.key, ver |-> e.ver]

\* edgeA == edgeB on the computed edges
CompareComputed ==
    /\ edgeForm = "computed"
    /\ eqComputed = None
    /\ eqComputed' = Some(ComputedDependencyEq(edgeA, edgeB))
    /\ UNCHANGED <<edgeForm, eqVars>>
    /\ UNCHANGED <<cacheVars, depVars, nodeVars, rdepVars, walkVars, commitVars, evalVars, exitVars, bfVars, pvVars, lockVars, arcVars>>

\* both edges are converted into their stored form
ConvertBoth ==
    /\ edgeForm = "computed"
    /\ eqComputed # None
    /\ edgeA' = IntoDependencyOf(edgeA)
    /\ edgeB' = IntoDependencyOf(edgeB)
    /\ edgeForm' = "stored"
    /\ UNCHANGED <<eqOut, eqComputed>>
    /\ UNCHANGED <<cacheVars, depVars, nodeVars, rdepVars, walkVars, commitVars, evalVars, exitVars, bfVars, pvVars, lockVars, arcVars>>

NextComputedEq ==
    \/ CompareComputed
    \/ ConvertBoth
    \/ edgeForm = "stored" /\ CompareStored

(***************************************************************************)
(* ExitResult: status_extended, report, execv                              *)
(***************************************************************************)
U8Max == 255
I32Max == 2147483647
I32Min == -I32Max - 1

\* enum FailureExitCode, and "Other" for an error that is no FailureExitCode
FailureExitCodes ==
    {"SignalInterrupt", "StdoutBrokenPipe", "StderrBrokenPipe", "OutputFileBrokenPipe"}
ErrorKinds == FailureExitCodes \cup {"Other"}

\* enum ExitResult
Status(v) == [tag |-> "Status", v |-> v, e |-> "none"]
UncategorizedError == [tag |-> "UncategorizedError", v |-> 0, e |-> "none"]
Exec == [tag |-> "Exec", v |-> 0, e |-> "none"]
Err(e) == [tag |-> "Err", v |-> 0, e |-> e]
NoResult == [tag |-> "none", v |-> 0, e |-> "none"]
ExitResults ==
    {Status(v) : v \in 0..U8Max} \cup {UncategorizedError, Exec}
        \cup {Err(e) : e \in ErrorKinds}

\* the i32 values status_extended is tried on: around the range of u8, and
\* the ends of i32
StatusInputs == ((0 - StatusSpan)..(U8Max + StatusSpan)) \cup {I32Min, I32Max}

\* what the child of Command::status() ended with (windows): status.code(),
\* None when it has no code
ChildCodes == {None, Some(0), Some(3), Some(U8Max), Some(U8Max + 1), Some(0 - 1)}

\* no process is exiting
IdleExit ==
    /\ xstatus = None
    /\ xgiven = NoResult
    /\ xres = NoResult
    /\ xpc = "new"
    /\ xcode = 0
    /\ xout = "pending"
    /\ xerr = "pending"
    /\ xprinted = FALSE
    /\ xexit = None
    /\ xnest = 0

\* main() ends with an ExitResult: one made by status_extended from an i32,
\* or any other one
InitExit ==
    /\ \/ xstatus \in {Some(st) : st \in StatusInputs} /\ xgiven = NoResult
       \/ xstatus = None /\ xgiven \in ExitResults
    /\ xres = xgiven
    /\ xpc = IF xgiven = NoResult THEN "new" ELSE "report"
    /\ xcode = 0
    /\ xout = "pending"
    /\ xerr = "pending"
    /\ xprinted = FALSE
    /\ xexit = None
    /\ xnest = 0

\* A plausible bug: the cast `status as u8`, which wraps
TryIntoU8Wrapping(st) == Some(st % (U8Max + 1))

\* u8::try_from(i32): Ok(code) iff the value is in the range of u8
TryIntoU8(st) == IF 0 <= st /\ st <= U8Max THEN Some(st) ELSE None

\* ExitResult::status_extended(status)
StatusExtendedOf(st) ==
    IF TryIntoU8(st) # None THEN Status(TryIntoU8(st)[1]) ELSE UncategorizedError

StatusExtended ==
    /\ xpc = "new"
    /\ xstatus # None
    /\ xgiven' = StatusExtendedOf(xstatus[1])
    /\ xres' = StatusExtendedOf(xstatus[1])
    /\ xpc' = "report"
    /\ UNCHANGED <<xstatus, xcode, xout, xerr, xprinted, xexit, xnest>>
    /\ UNCHANGED <<cacheVars, depVars, nodeVars, rdepVars, walkVars, commitVars, evalVars, eqVars, bfVars, pvVars, lockVars, arcVars, ceqVars>>

\* A plausible bug: every error exits with the generic code
ErrExitCodeGeneric(e) == 1

\* report(): match e.downcast_ref::<FailureExitCode>()
ErrExitCode(e) ==
    CASE e = "SignalInterrupt" -> 130
      [] e = "StdoutBrokenPipe" -> 141
      [] e = "StderrBrokenPipe" -> 141
      [] e = "OutputFileBrokenPipe" -> 141
      [] OTHER -> 1

\* A plausible bug: execv hands the Exec back to be run again
ExecvReturnsWithExec == {Exec, Err("Other")}

\* execv(args) when it returns: Err(e) of an error that is no FailureExitCode
\* (chdir, a nul byte, execvp failing), or on windows Ok(status) of the child:
\* ExitResult::status(code.try_into().unwrap_or(1)), code = status.code().unwrap_or(1)
ExecvReturns ==
    {Err("Other")} \cup
    {Status(IF TryIntoU8(IF c = None THEN 1 ELSE c[1]) = None
              THEN 1 ELSE TryIntoU8(IF c = None THEN 1 ELSE c[1])[1]) : c \in ChildCodes}

\* report(): let mut exit_code = match self { .. }. Exec calls execv, which
\* replaces the process image or returns a result that is reported in turn.
ReportMatch ==
    /\ xpc = "report"
    /\ CASE xres.tag = "Status" ->
              /\ xcode' = xres.v
              /\ xpc' = "flush_stdout"
              /\ UNCHANGED <<xres, xprinted, xnest>>
         [] xres.tag = "UncategorizedError" ->
              /\ xcode' = 1
              /\ xpc' = "flush_stdout"
              /\ UNCHANGED <<xres, xprinted, xnest>>
         [] xres.tag = "Err" ->
              /\ xcode' = ErrExitCode(xres.e)
              /\ xprinted' = (xres.e \notin FailureExitCodes)
              /\ xpc' = "flush_stdout"
              /\ UNCHANGED <<xres, xnest>>
         [] xres.tag = "Exec" ->
              \/ /\ xpc' = "replaced"
                 /\ UNCHANGED <<xres, xcode, xprinted, xnest>>
              \/ /\ xres' \in ExecvReturns
                 /\ xpc' = "report"
                 /\ xnest' = xnest + 1
                 /\ UNCHANGED <<xcode, xprinted>>
    /\ UNCHANGED <<xstatus, xgiven, xout, xerr, xexit>>
    /\ UNCHANGED <<cacheVars, depVars, nodeVars, rdepVars, walkVars, commitVars, evalVars, eqVars, bfVars, pvVars, lockVars, arcVars, ceqVars>>

\* A plausible bug: a failed flush leaves the exit code as it was
AfterFlushKeepingCode(code, ok) == code

\* if io::stdout().flush().is_err() { exit_code = 141 }, and the same for stderr
AfterFlush(code, ok) == IF ok THEN code ELSE 141

\* if io::stdout().flush().is_err() { exit_code = 141 }
FlushStdout(ok) ==
    /\ xpc = "flush_stdout"
    /\ xout' = IF ok THEN "ok" ELSE "err"
    /\ xcode' = AfterFlush(xcode, ok)
    /\ xpc' = "flush_stderr"
    /\ UNCHANGED <<xstatus, xgiven, xres, xerr, xprinted, xexit, xnest>>
    /\ UNCHANGED <<cacheVars, depVars, nodeVars, rdepVars, walkVars, commitVars, evalVars, eqVars, bfVars, pvVars, lockVars, arcVars, ceqVars>>

\* if io::stderr().flush().is_err() { exit_code = 141 }
FlushStderr(ok) ==
    /\ xpc = "flush_stderr"
    /\ xerr' = IF ok THEN "ok" ELSE "err"
    /\ xcode' = AfterFlush(xcode, ok)
    /\ xpc' = "exit"
    /\ UNCHANGED <<xstatus, xgiven, xres, xout, xprinted, xexit, xnest>>
    /\ UNCHANGED <<cacheVars, depVars, nodeVars, rdepVars, walkVars, commitVars, evalVars, eqVars, bfVars, pvVars, lockVars, arcVars, ceqVars>>

\* exit_code as libc::c_int: a u8 widened to a c_int keeps its value
AsCInt(code) == code

\* unsafe { libc::_exit(exit_code as libc::c_int) }
ProcessExit ==
    /\ xpc = "exit"
    /\ xexit' = Some(AsCInt(xcode))
    /\ xpc' = "exited"
    /\ UNCHANGED <<xstatus, xgiven, xres, xcode, xout, xerr, xprinted, xnest>>
    /\ UNCHANGED <<cacheVars, depVars, nodeVars, rdepVars, walkVars, commitVars, evalVars, eqVars, bfVars, pvVars, lockVars, arcVars, ceqVars>>

NextExit ==
    \/ StatusExtended
    \/ ReportMatch
    \/ \E ok \in BOOLEAN : FlushStdout(ok)
    \/ \E ok \in BOOLEAN : FlushStderr(ok)
    \/ ProcessExit

\* the process keeps running its code until it exits or is replaced
FairExit == WF_vars(NextExit)

(***************************************************************************)
(* One build file: oncall(name) and target declarations (tests::test_oncall) *)
(***************************************************************************)
OncallNames == {"valid", "twice"}
TargetNames == {"rule_name", "other_rule", "third_rule"}
MoreThanOnce == "more than once"
AfterTargets == "after one or more targets"

\* a build file about to be evaluated
InitBuildFile ==
    /\ bfOncall = None
    /\ bfTargets = <<>>
    /\ bfError = None
    /\ bfLog = <<>>

IdleBuildFile == InitBuildFile

\* A plausible bug: oncall does not look at the targets declared so far
OncallErrorsIgnoringTargets(seen, targets) ==
    IF seen # None THEN {MoreThanOnce} ELSE {}

\* the errors oncall can fail with; when the file already has an oncall and
\* a target, which of the two checks comes first is not fixed by the test
OncallErrors(seen, targets) ==
    (IF seen # None THEN {MoreThanOnce} ELSE {})
        \cup (IF targets # <<>> THEN {AfterTargets} ELSE {})

\* oncall(name)
Oncall(name) ==
    /\ bfError = None
    /\ Len(bfLog) < MaxBuildCalls
    /\ IF OncallErrors(bfOncall, bfTargets) = {}
         THEN /\ bfOncall' = Some(name)
              /\ bfLog' = Append(bfLog, [call |-> "oncall", arg |-> name, res |-> "ok"])
              /\ UNCHANGED bfError
         ELSE /\ \E msg \in OncallErrors(bfOncall, bfTargets) :
                    /\ bfError' = Some(msg)
                    /\ bfLog' = Append(bfLog, [call |-> "oncall", arg |-> name, res |-> msg])
              /\ UNCHANGED bfOncall
    /\ UNCHANGED bfTargets
    /\ UNCHANGED <<cacheVars, depVars, nodeVars, rdepVars, walkVars, commitVars, evalVars, eqVars, exitVars, pvVars, lockVars, arcVars, ceqVars>>

\* export_file(name = ..): a target is declared
DeclareTarget(name) ==
    /\ bfError = None
    /\ Len(bfLog) < MaxBuildCalls
    /\ \A i \in 1..Len(bfTargets) : bfTargets[i] # name
    /\ bfTargets' = Append(bfTargets, name)
    /\ bfLog' = Append(bfLog, [call |-> "target", arg |-> name, res |-> "ok"])
    /\ UNCHANGED <<bfOncall, bfError>>
    /\ UNCHANGED <<cacheVars, depVars, nodeVars, rdepVars, walkVars, commitVars, evalVars, eqVars, exitVars, pvVars, lockVars, arcVars, ceqVars>>

NextBuildFile ==
    \/ \E name \in OncallNames : Oncall(name)
    \/ \E name \in TargetNames : DeclareTarget(name)

(***************************************************************************)
(* provider(doc, fields) (build_defs.rs, register_provider)                *)
(***************************************************************************)
FieldNames == {"x", "y", "z"}
DocTexts == {"", "Some docs"}
FieldDocTexts == {"docs for field"}

\* Vec<String>: the lists a caller can pass as fields = [..]
FieldLists == UNION {[1..n -> FieldNames] : n \in 0..MaxFields}

\* SmallMap<&str, &str>: the dicts a caller can pass as fields = {..}; a dict
\* literal keeps one entry per key, in insertion order
FieldDicts ==
    {d \in UNION {[1..n -> FieldNames \X FieldDocTexts] : n \in 0..MaxFields} :
        \A i, j \in DOMAIN d : i # j => d[i][1] # d[j][1]}

\* Either<Vec<String>, SmallMap<&str, &str>>
Left(f) == [side |-> "left", val |-> f]
Right(d) == [side |-> "right", val |-> d]
FieldsArgs == {Left(f) : f \in FieldLists} \cup {Right(d) : d \in FieldDicts}

\* no provider() call was made yet
InitProvider ==
    /\ pvArgs = None
    /\ pvOut = None
    /\ pvMade = <<>>

IdleProvider == InitProvider

\* SmallSet insertion: the element is appended unless already present
SmallSetInsert(set, x) ==
    IF \E i \in DOMAIN set : set[i] = x THEN set ELSE Append(set, x)

RECURSIVE SmallSetCollect(_)
\* f.iter().cloned().collect::<SmallSet<String>>()
SmallSetCollect(f) ==
    IF f = <<>> THEN <<>>
    ELSE SmallSetInsert(SmallSetCollect(SubSeq(f, 1, Len(f) - 1)), f[Len(f)])

\* A plausible bug: the length comparison is left out
HasNonUniqueFieldsNever(f) == FALSE

\* field_names.len() != f.len()
HasNonUniqueFields(f) == Len(SmallSetCollect(f)) # Len(f)

\* NativesError::NonUniqueFields(f)
NonUniqueFields(f) == [ok |-> FALSE, error |-> "non-unique field names", names |-> f]

\* UserProviderCallable::new(path, docstring, field_docs, field_names)
UserProviderCallable(doc, docs, names) ==
    [ok |-> TRUE, docstring |-> doc, field_docs |-> docs, field_names |-> names]

\* the match on fields: Err(NonUniqueFields), or (field_names, field_docs)
ProviderResult(doc, fields) ==
    IF fields.side = "left"
      THEN IF HasNonUniqueFields(fields.val)
             THEN NonUniqueFields(fields.val)
             ELSE UserProviderCallable(doc, [i \in DOMAIN fields.val |-> None],
                                       SmallSetCollect(fields.val))
      ELSE UserProviderCallable(doc, [i \in DOMAIN fields.val |-> Some(fields.val[i][2])],
                                [i \in DOMAIN fields.val |-> fields.val[i][1]])

\* provider(doc = doc, fields = fields); an error ends the evaluation of the file
Provider(doc, fields) ==
    /\ IF pvOut = None THEN TRUE ELSE pvOut[1].ok
    /\ Len(pvMade) < MaxProviderCalls
    /\ pvArgs' = Some([doc |-> doc, fields |-> fields])
    /\ pvOut' = Some(ProviderResult(doc, fields))
    /\ pvMade' = IF ProviderResult(doc, fields).ok
                   THEN Append(pvMade, ProviderResult(doc, fields))
                   ELSE pvMade
    /\ UNCHANGED <<cacheVars, depVars, nodeVars, rdepVars, walkVars, commitVars, evalVars, eqVars, exitVars, bfVars, lockVars, arcVars, ceqVars>>

NextProvider == \E doc \in DocTexts, fields \in FieldsArgs : Provider(doc, fields)

InitSpecCache == InitCache /\ IdleDeps /\ InitNodes /\ InitRdeps /\ InitWalk /\ InitCommit /\ IdleEq /\ IdleExit /\ IdleBuildFile /\ IdleProvider /\ IdleLock /\ IdleArcs /\ IdleComputedEq
InitSpecDeps == IdleCache /\ InitDeps /\ InitNodes /\ InitRdeps /\ InitWalk /\ InitCommit /\ IdleEq /\ IdleExit /\ IdleBuildFile /\ IdleProvider /\ IdleLock /\ IdleArcs /\ IdleComputedEq
InitSpecRdeps == IdleCache /\ IdleDeps /\ InitNodes /\ InitRdeps /\ InitWalk /\ InitCommit /\ IdleEq /\ IdleExit /\ IdleBuildFile /\ IdleProvider /\ IdleLock /\ IdleArcs /\ IdleComputedEq
InitSpecCommit == IdleCache /\ AnyDeps /\ InitNodes /\ InitRdeps /\ InitWalk /\ InitCommit /\ IdleEq /\ IdleExit /\ IdleBuildFile /\ IdleProvider /\ IdleLock /\ IdleArcs /\ IdleComputedEq
InitSpecEvaluate == IdleCache /\ AnyDeps /\ InitNodes /\ InitRdeps /\ InitWalk /\ InitCommit /\ IdleEq /\ IdleExit /\ IdleBuildFile /\ IdleProvider /\ IdleLock /\ IdleArcs /\ IdleComputedEq
InitSpecEq == IdleCache /\ IdleDeps /\ InitNodes /\ InitRdeps /\ InitWalk /\ InitCommit /\ InitEq /\ IdleExit /\ IdleBuildFile /\ IdleProvider /\ IdleLock /\ IdleArcs /\ IdleComputedEq
InitSpecExit == IdleCache /\ IdleDeps /\ InitNodes /\ InitRdeps /\ InitWalk /\ InitCommit /\ IdleEq /\ InitExit /\ IdleBuildFile /\ IdleProvider /\ IdleLock /\ IdleArcs /\ IdleComputedEq
InitSpecBuildFile == IdleCache /\ IdleDeps /\ InitNodes /\ InitRdeps /\ InitWalk /\ InitCommit /\ IdleEq /\ IdleExit /\ InitBuildFile /\ IdleProvider /\ IdleLock /\ IdleArcs /\ IdleComputedEq
InitSpecProvider == IdleCache /\ IdleDeps /\ InitNodes /\ InitRdeps /\ InitWalk /\ InitCommit /\ IdleEq /\ IdleExit /\ IdleBuildFile /\ InitProvider /\ IdleLock /\ IdleArcs /\ IdleComputedEq
InitSpecComputedEq == IdleCache /\ IdleDeps /\ InitNodes /\ InitRdeps /\ InitWalk /\ InitCommit /\ InitComputedEq /\ IdleExit /\ IdleBuildFile /\ IdleProvider /\ IdleLock /\ IdleArcs

SpecCache == InitSpecCache /\ [][NextCache]_vars
SpecDeps == InitSpecDeps /\ [][NextDeps]_vars
SpecRdeps == InitSpecRdeps /\ [][NextRdeps]_vars
SpecRdepsPair == InitSpecRdeps /\ [][NextRdepsPair]_vars
SpecFanout == InitSpecRdeps /\ [][NextFanout]_vars
SpecOwnership == InitSpecRdeps /\ [][NextOwnership]_vars
SpecCommit == InitSpecCommit /\ [][NextCommit]_vars
SpecEvaluate == InitSpecEvaluate /\ [][NextEvaluate]_vars
SpecEq == InitSpecEq /\ [][NextEq]_vars
SpecExit == InitSpecExit /\ [][NextExit]_vars
SpecExitFair == InitSpecExit /\ [][NextExit]_vars /\ FairExit
SpecBuildFile == InitSpecBuildFile /\ [][NextBuildFile]_vars
SpecProvider == InitSpecProvider /\ [][NextProvider]_vars
SpecGuardFair == InitSpecRdeps /\ [][NextGuard]_vars /\ FairGuard
SpecRdepsRead == InitSpecRdeps /\ [][NextRdepsRead]_vars
SpecSnapshot == InitSpecDeps /\ [][NextSnapshot]_vars
SpecComputedEq == InitSpecComputedEq /\ [][NextComputedEq]_vars

(***************************************************************************)
(* C1                                                                      *)
(***************************************************************************)
DoneOn(k) == {r \in Requesters : rpc[r] = "done" /\ rkey[r] = k}
CalledOn(k) == {r \in Requesters : rkey[r] = k}

\* C1: when the requesters that called get(K) have all finished and each one
\* that saw a vacant slot populated it, exactly one of them saw the slot vacant
\* and started the recompute, every other one saw it occupied and holds that
\* same task, and the recompute for K ran exactly once.
C1_AtMostOneComputation ==
    \A k \in DiceKeys :
        /\ recomputes[k] <= 1
        /\ ( /\ CalledOn(k) # {}
             /\ CalledOn(k) = DoneOn(k)
             /\ \A r \in CalledOn(k) : ~rabandon[r] )
           => /\ Cardinality({r \in DoneOn(k) : rview[r] = "vacant"}) = 1
              /\ recomputes[k] = 1
              /\ \A r \in DoneOn(k) :
                    /\ rtask[r] = storage[k]
                    /\ rtask[r] # NoTask
                    /\ rview[r] = "occupied" <=> rtask[r] # r

\* All requesters raced for the same key and finished, none abandoning.
C1_Witness ==
    \E k \in DiceKeys :
        /\ DoneOn(k) = Requesters
        /\ \A r \in Requesters : ~rabandon[r]

(***************************************************************************)
(* C2 - C4: add_deps                                                       *)
(***************************************************************************)
\* C2: when exactly two calls add_deps(v1, d1) and add_deps(v2, d2) with
\* v1 < v2 have both completed on a store, in whichever order they arrived,
\* the store holds (v2, d2) and deps() returns d2.
C2_MonotonicSnapshot ==
    \A n \in Stores : \A c1, c2 \in calls :
        (calls = {c1, c2} /\ c1.v < c2.v /\ issued[n] = calls)
            => /\ deps[n] = Some(c2)
               /\ DepsOf(n) = Some(c2.d)

\* Both calls completed and the last one to arrive was refused: the snapshot of
\* the higher version was already stored when it came.
C2_Witness ==
    \E n \in Stores : \E c1, c2 \in calls :
        /\ calls = {c1, c2} /\ c1.v < c2.v /\ c1.d # c2.d
        /\ issued[n] = calls
        /\ lastOutcome[n] = "kept"

\* C3: a step add_deps(v, deps) replaces the snapshot iff the store is empty
\* or v is strictly greater than the stored version, and leaves version and
\* list as they were otherwise; no version is written a second time.
C3_ReplaceIffNewer ==
    [][\A n \in Stores : \A c \in calls :
         (issued'[n] = issued[n] \cup {c} /\ AddDeps(n, c)) =>
           IF deps[n] = None \/ c.v > deps[n][1].v
             THEN deps'[n] = Some(c) /\ c.v \notin writtenVers[n]
             ELSE deps'[n] = deps[n] /\ writtenVers'[n] = writtenVers[n]]_vars

\* A store refused a second write at the version it holds, carrying another list.
C3_Witness ==
    \E n \in Stores : \E c \in issued[n] :
        /\ deps[n] # None /\ lastOutcome[n] = "kept"
        /\ c.v = deps[n][1].v
        /\ c.d # deps[n][1].d

CallsAtMaxVersion == {c \in calls : \A o \in calls : o.v <= c.v}

\* C4 as stated: two stores that received the same calls, each in its own
\* arrival order, end in the same snapshot.
C4_OrderIndependent ==
    (issued[1] = calls /\ issued[2] = calls) => deps[1] = deps[2]

\* C4 amended: the stored version is the same in every arrival order, and so
\* is the list when the calls of the highest version all carry the same list.
C4_OrderIndependentAmended ==
    (issued[1] = calls /\ issued[2] = calls) =>
        /\ deps[1] # None /\ deps[2] # None
        /\ deps[1][1].v = deps[2][1].v
        /\ deps[1][1] \in CallsAtMaxVersion
        /\ (\A c, o \in CallsAtMaxVersion : c.d = o.d) => deps[1] = deps[2]

\* Three calls of distinct versions reached the two stores in different orders.
C4_Witness ==
    /\ Cardinality(calls) = 3
    /\ \A c, o \in calls : c # o => c.v # o.v
    /\ issued[1] = calls /\ issued[2] = calls
    /\ lastOutcome[1] = "written" /\ lastOutcome[2] = "kept"

(***************************************************************************)
(* C5 - C8, C10: add_rdep, Rdep, the fan-out                               *)
(***************************************************************************)
Alive(d) == Upgrade(d) # None
Supplied(m, d) == {c[2] : c \in {x \in made[m] : x[1] = d}}
MaxOf(S) == CHOOSE x \in S : \A y \in S : y <= x

\* C5: for a dependent that is alive, the store holds one entry and its
\* version is the highest version any add_rdep supplied for it, whatever the
\* order of the calls; the version of an entry never decreases.
C5_RdepVersionMonotone ==
    /\ [](\A d \in Dependents :
            (Alive(d) /\ Supplied(1, d) # {}) =>
                /\ Len(rdeps[1][d]) = 1
                /\ rdeps[1][d][1].ver = MaxOf(Supplied(1, d)))
    /\ [][\A d \in Dependents : \A i \in 1..Len(rdeps[1][d]) :
            /\ Len(rdeps'[1][d]) >= i
            /\ rdeps'[1][d][i].ver >= rdeps[1][d][i].ver]_vars

\* add_rdep(D, v1) was followed by add_rdep(D, v2) with v2 < v1 on a live D.
C5_Witness ==
    \E d \in Dependents : \E v1, v2 \in VersionNumbers :
        /\ Alive(d) /\ v2 < v1
        /\ <<d, v1>> \in made[1]
        /\ lastRdep[1] = Some(<<d, v2>>)
        /\ rdeps[1][d][1].ver = v1

\* C6 as stated: two stores that received the same add_rdep calls hold the
\* same map whatever the interleaving, and repeating a call already made
\* leaves the map as it was.
C6_CommutativeIdempotent ==
    [][/\ made'[1] = made'[2] => RdepsView(1)' = RdepsView(2)'
       /\ \A m \in RevStores, d \in Dependents, v \in VersionNumbers :
            (AddRdep(m, d, v) /\ <<d, v>> \in made[m])
                => RdepsView(m)' = RdepsView(m)]_vars

\* C7: an entry of the rdeps map is no owner: the strong count of a node is
\* the number of its owners, a node without owners is reclaimed although
\* entries for it remain, upgrading such an entry yields None, and a node
\* that still has an owner is not reclaimed.
C7_WeakBackEdge ==
    \A d \in Dependents :
        /\ strong[d] = Cardinality(owners[d])
        /\ owners[d] = {} => (reclaimed[d] /\ Upgrade(d) = None)
        /\ owners[d] # {} => (~reclaimed[d] /\ Upgrade(d) = Some(d))

\* Node 1 lost its last owner while the map kept an entry for it, and a walk
\* passed that entry without dirtying the node: the upgrade yielded None.
C7_Witness ==
    /\ owners[1] = {} /\ reclaimed[1]
    /\ Len(rdeps[1][1]) >= 1
    /\ wver[1] # 0 /\ wpos[1] >= 1
    /\ dirtied[1] = {}

\* C8 as stated: two Rdeps are equal iff they point at the same node, equal
\* Rdeps hash alike, and the hash of an Rdep is the same before and after
\* its referent is dropped.
C8_HashByIdentity ==
    [][\A d1, d2 \in Dependents :
         /\ RdepEq(d1, d2) <=> d1 = d2
         /\ RdepEq(d1, d2) => RdepHash(d1) = RdepHash(d2)
         /\ RdepHash(d1)' = RdepHash(d1)]_vars

\* C10: once a fan-out at version v is over, every dependent recorded before
\* it began and still alive is dirtied at v; after a fan-out at v1 and then
\* one at v2 > v1 those dependents were last notified with v2; a second
\* fan-out at the same version over the same dependents changes nothing.
C10_FanoutIdempotent ==
    /\ []((wpc[1] = "idle" /\ wver[1] # 0) =>
            /\ \A d \in wexpect[1] : Alive(d) => wver[1] \in dirtied[d]
            /\ (prevFan # None /\ prevFan[1].ver < wver[1]) =>
                 \A d \in prevFan[1].expect :
                    Alive(d) => /\ lastDirty[d] = wver[1]
                                /\ {prevFan[1].ver, wver[1]} \subseteq dirtied[d])
    /\ [][( /\ WalkStep(1)
            /\ prevFan # None
            /\ prevFan[1].ver = wver[1]
            /\ wexpect[1] \subseteq prevFan[1].expect )
          => (dirtied' = dirtied /\ lastDirty' = lastDirty)]_vars

\* A node was dirtied at v1 and then at v2 > v1, and a dependent recorded
\* before the first fan-out is still alive.
C10_Witness ==
    /\ wpc[1] = "idle" /\ prevFan # None
    /\ prevFan[1].ver < wver[1]
    /\ \E d \in prevFan[1].expect : Alive(d)

(***************************************************************************)
(* C9: the commit of computed edges                                        *)
(***************************************************************************)
PublishedBy(c) == {r \in published : r.comp = c}

\* C9: every edge handed to add_deps, and every reverse edge recorded by
\* add_rdep, comes from a computed edge that was valid when its computation
\* committed, of a computation that finished successfully and had not been
\* superseded by then; a computation that failed or was superseded before
\* its commit drops its computed edges without converting or storing any;
\* no computed edge is converted by into_dependency more than once.
C9_StaleNeverPublished ==
    /\ \A r \in published : r.valid /\ r.ok /\ r.at = r.ver
    /\ deps[NodeA] # None =>
          \A i \in 1..Len(deps[NodeA][1].d) :
             \E r \in published :
                r.target = deps[NodeA][1].d[i] /\ r.ver = deps[NodeA][1].v
    /\ \A t \in Targets : \A i \in 1..Len(rdeps[t][NodeA]) :
          \E r \in published :
             r.target = t /\ r.ver = rdeps[t][NodeA][i].ver
    /\ \A c \in Computations : \A t \in Targets :
          /\ conv[c][t] <= 1
          /\ conv[c][t] = 1 <=> \E r \in PublishedBy(c) : r.target = t
          /\ cedge[c][t] \in {"moved", "linked"} <=> conv[c][t] = 1
    /\ \A c \in Computations :
          cpc[c] = "discarded" =>
             /\ PublishedBy(c) = {}
             /\ \A t \in Targets : cedge[c][t] \in {"none", "dropped"}

\* The first computation was superseded by a write while it ran, finished
\* successfully and dropped both its computed edges; the second one,
\* started at the new version, committed and recorded its reverse edges.
C9_Witness ==
    /\ cpc[1] = "discarded" /\ cver[1] = 1
    /\ \A t \in Targets : cedge[1][t] = "dropped"
    /\ cpc[2] = "committed" /\ cver[2] = 2
    /\ deps[NodeA] = Some([v |-> 2, d |-> <<1, 2>>])
    /\ \A t \in Targets : Len(rdeps[t][NodeA]) = 1

(***************************************************************************)
(* C11: the incremental scenario                                           *)
(***************************************************************************)
\* the computations that stored their edges
Committed == {c \in Computations : cpc[c] \in {"linking", "committed"}}
\* the targets a committed computation depends on
EdgesOf(c) == {t \in Targets : cedge[c][t] \in {"moved", "linked"}}
\* a stored edge of the node points at a target written after the snapshot
StoredEdgeDirtied ==
    /\ deps[NodeA] # None
    /\ \E i \in 1..Len(deps[NodeA][1].d) :
          lastDirty[deps[NodeA][1].d[i]] > deps[NodeA][1].v

C11_SnapshotFollowsCommits ==
    /\ \A c1, c2 \in Computations : c1 # c2 /\ cver[c1] # 0 => cver[c1] # cver[c2]
    /\ \A c \in Committed :
          /\ deps[NodeA] # None /\ deps[NodeA][1].v >= cver[c]
          /\ (\A c2 \in Committed : cver[c2] <= cver[c]) =>
                /\ deps[NodeA][1].v = cver[c]
                /\ {deps[NodeA][1].d[i] : i \in 1..Len(deps[NodeA][1].d)} = EdgesOf(c)
          /\ \A t \in Targets : cedge[c][t] = "linked" =>
                \E i \in 1..Len(rdeps[t][NodeA]) : rdeps[t][NodeA][i].ver >= cver[c]
    /\ \A t \in Targets : \A i \in 1..Len(rdeps[t][NodeA]) :
          \E c \in Committed : rdeps[t][NodeA][i].ver = cver[c] /\ t \in EdgesOf(c)

C11_EvaluateSteps ==
    [][Evaluate =>
        /\ (\E c \in Committed : cver[c] = clock) =>
              lastEval' = "cached" /\ UNCHANGED <<cpc, cver, conv, deps, rdeps>>
        /\ (TaskAt(clock) = {} /\ StoredEdgeDirtied) =>
              /\ lastEval' = "recomputed"
              /\ Cardinality({c \in Computations : cver'[c] = clock}) = 1
              /\ \E c \in Computations :
                    cpc[c] = "idle" /\ cpc'[c] = "running" /\ cver'[c] = clock
       ]_vars

\* C11: a committed evaluation leaves the forward edges of the node in its
\* store and the reverse edge in the store of each target, at the version of
\* the evaluation, the latest commit being the snapshot; after a write to a
\* target of the stored snapshot the next evaluate recomputes the node, once
\* per version; an evaluate at a version whose result is committed returns it
\* and starts no recompute.
C11_IncrementalScenario == []C11_SnapshotFollowsCommits /\ C11_EvaluateSteps

\* A was evaluated at version 1 with its edge to B, B was written, A was
\* evaluated again and committed at version 2, and a further evaluate at
\* version 2 returned the cached result.
C11_Witness ==
    /\ clock = 2 /\ lastDirty[1] = 2
    /\ cpc[1] = "committed" /\ cver[1] = 1 /\ EdgesOf(1) = {1}
    /\ cpc[2] = "committed" /\ cver[2] = 2
    /\ deps[NodeA] = Some([v |-> 2, d |-> <<1>>])
    /\ \E i \in 1..Len(rdeps[1][NodeA]) : rdeps[1][NodeA][i].ver = 2
    /\ lastEval = "cached"

(***************************************************************************)
(* C12: contention between keys                                            *)
(***************************************************************************)
\* the requesters holding the Entry returned by get()
Holding == {r \in Requesters : rpc[r] \in {"vacant", "occupied"}}

\* C12 as stated: while a requester holds the slot handle of K1, get(K2) for
\* any other key K2 is not blocked.
C12_UnrelatedKeysNeverContend ==
    \A r \in Holding : \A k2 \in DiceKeys \ {rkey[r]} : EntryLockFree(k2)

\* C12 amended: while a requester holds the slot handle of K1, it blocks
\* get(K2) for another key K2 exactly when K2 falls into the shard of K1;
\* a key of another shard is never blocked by it.
C12_OtherShardsNeverContend ==
    \A r \in Holding : \A k2 \in DiceKeys \ {rkey[r]} :
        shardLock[ShardOf(k2)] = r <=> (k2 % NumShards) = (rkey[r] % NumShards)

\* Two requesters hold the handles of two keys of different shards at once,
\* and a third key is blocked by one of them.
C12_Witness ==
    \E r1, r2 \in Holding :
        /\ r1 # r2
        /\ (rkey[r1] % NumShards) # (rkey[r2] % NumShards)
        /\ \E k3 \in DiceKeys \ {rkey[r1], rkey[r2]} : ~EntryLockFree(k3)

(***************************************************************************)
(* C13: the stored snapshot only advances                                  *)
(***************************************************************************)
\* C13: no step takes a store from a present snapshot back to the empty
\* state, and no step lowers the stored version.
C13_SnapshotMonotone ==
    [][\A n \in Stores :
          deps[n] # None => deps'[n] # None /\ deps'[n][1].v >= deps[n][1].v]_vars

\* A store advanced through two versions and refused a call of a version
\* below the one it holds.
C13_Witness ==
    \E n \in Stores :
        /\ Cardinality(writtenVers[n]) >= 2
        /\ \E c \in issued[n] : c.v \notin writtenVers[n] /\ c.v < deps[n][1].v

(***************************************************************************)
(* C14: equality of stored edges                                           *)
(***************************************************************************)
\* C14: two stored edges compare equal iff they reference the same target
\* key (same key type, same key), whatever the versions they were recorded at.
C14_StoredEdgeEqByKey ==
    eqOut # None =>
        (eqOut[1] <=> (edgeA.key.ty = edgeB.key.ty /\ edgeA.key.id = edgeB.key.id))

\* Two edges to the same key recorded at different versions compared equal.
C14_Witness ==
    /\ eqOut = Some(TRUE)
    /\ edgeA.key = edgeB.key
    /\ edgeA.ver # edgeB.ver

(***************************************************************************)
(* C15: deps()                                                             *)
(***************************************************************************)
\* the add_deps call c is of a version above every version applied so far
AboveApplied(n, c) == \A v \in writtenVers[n] : c.v > v

C15_AbsentIffNeverApplied ==
    \A n \in Stores :
        /\ DepsOf(n) = None <=> writtenVers[n] = {}
        /\ writtenVers[n] = {} <=> issued[n] = {}
        /\ DepsOf(n) # None => \A v \in writtenVers[n] : v <= deps[n][1].v

C15_ListOfHighestApplied ==
    [][\A n \in Stores, c \in calls :
          (issued'[n] = issued[n] \cup {c} /\ AddDeps(n, c)) =>
             IF AboveApplied(n, c)
               THEN DepsOf(n)' = Some(c.d)
               ELSE DepsOf(n)' = DepsOf(n)]_vars

\* C15: deps() is absent iff no add_deps call has taken effect on the store
\* (which is iff none was made); a call that takes effect is of a version
\* above every version applied before and deps() then returns its list, and
\* a call that does not take effect leaves what deps() returns unchanged: so
\* deps() returns the list of the applied call of highest version.
C15_DepsReturnsHighestApplied == []C15_AbsentIffNeverApplied /\ C15_ListOfHighestApplied

\* deps() returns the list written at the higher of two applied versions,
\* after a call that did not take effect.
C15_Witness ==
    \E n \in Stores :
        /\ Cardinality(writtenVers[n]) >= 2
        /\ lastOutcome[n] = "kept"
        /\ DepsOf(n) = Some(deps[n][1].d)
        /\ \E c \in issued[n] : c.v = deps[n][1].v /\ c.d # deps[n][1].d

(***************************************************************************)
(* C16: active_tasks_count()                                               *)
(***************************************************************************)
C16_CountIsPopulatedKeys ==
    /\ ActiveTasksCount = Cardinality({k \in DiceKeys : recomputes[k] >= 1})
    /\ (\A r \in Requesters : rpc[r] = "idle") => ActiveTasksCount = 0

C16_CountSteps ==
    [][/\ \A r \in Requesters, k \in DiceKeys :
             CacheGet(r, k) => ActiveTasksCount' = ActiveTasksCount
       /\ \A r \in Requesters :
             /\ Abandon(r) => ActiveTasksCount' = ActiveTasksCount
             /\ Join(r) => ActiveTasksCount' = ActiveTasksCount
             /\ Populate(r) => ActiveTasksCount' = ActiveTasksCount + 1]_vars

\* C16: active_tasks_count() is the number of keys whose slot holds a task;
\* it is 0 on a new cache, get(key) leaves it unchanged whether the slot is
\* vacant or occupied, so does releasing a vacant slot unpopulated, and
\* populating a vacant slot raises it by one.
C16_ActiveTasksCount == []C16_CountIsPopulatedKeys /\ C16_CountSteps

\* One key holds a task, a second key was obtained vacant and released
\* unpopulated, and a third is held vacant: the count is 1.
C16_Witness ==
    /\ ActiveTasksCount = 1
    /\ \E r1, r2 \in Requesters :
          /\ rabandon[r1] /\ storage[rkey[r1]] = NoTask
          /\ rpc[r2] = "vacant" /\ rkey[r2] # rkey[r1]

(***************************************************************************)
(* C17: an evicted target                                                  *)
(***************************************************************************)
\* a target of the stored snapshot is not resident
StoredEdgeEvicted ==
    /\ deps[NodeA] # None
    /\ \E i \in 1..Len(deps[NodeA][1].d) : ~resident[deps[NodeA][1].d[i]]

C17_LookupResult ==
    \A t \in Targets :
        /\ LookupNode(t) \in {None, Some(t)}
        /\ LookupNode(t) = Some(t) <=> resident[t]

C17_EvictedMeansRecompute ==
    [][(Evaluate /\ TaskAt(clock) = {} /\ StoredEdgeEvicted) =>
          /\ lastEval' = "recomputed"
          /\ \E c \in Computations :
                cpc[c] = "idle" /\ cpc'[c] = "running" /\ cver'[c] = clock]_vars

\* C17: lookup_node returns the target node if it is resident and None if it
\* was evicted, nothing else; an evaluate that re-validates a stored snapshot
\* with an evicted target does not reuse the snapshot but recomputes.
C17_EvictedNotAFault == []C17_LookupResult /\ C17_EvictedMeansRecompute

\* The snapshot of version 1 lists a target that was never written but was
\* evicted; at version 2 the evaluate started a recompute.
C17_Witness ==
    /\ deps[NodeA] = Some([v |-> 1, d |-> <<1>>])
    /\ ~resident[1] /\ lastDirty[1] = 0
    /\ clock = 2 /\ lastEval = "recomputed"
    /\ cpc[1] = "committed" /\ cver[1] = 1
    /\ cpc[2] = "running" /\ cver[2] = 2

(***************************************************************************)
(* C18, C19: exit codes                                                    *)
(***************************************************************************)
\* the process exited and both flushes succeeded
CleanExit == xpc = "exited" /\ xout = "ok" /\ xerr = "ok"

\* C18: when both flushes succeed, report() on Status(v) exits with v, on
\* UncategorizedError with 1, on Err of SignalInterrupt with 130, on Err of
\* StdoutBrokenPipe, StderrBrokenPipe or OutputFileBrokenPipe with 141, on
\* any other Err with 1; the codes of the signal cases are 128 + the signal
\* number (2, 13) and lie in 129..192.
C18_ExitCodeTable ==
    CleanExit =>
        /\ xgiven.tag = "Status" => xexit = Some(xgiven.v)
        /\ xgiven.tag = "UncategorizedError" => xexit = Some(1)
        /\ xgiven = Err("SignalInterrupt") => xexit = Some(128 + 2)
        /\ xgiven \in {Err("StdoutBrokenPipe"), Err("StderrBrokenPipe"),
                       Err("OutputFileBrokenPipe")} => xexit = Some(128 + 13)
        /\ xgiven = Err("Other") => xexit = Some(1)
        /\ (xgiven.tag = "Err" /\ xgiven.e \in FailureExitCodes) => xexit[1] \in 129..192

\* report() exited cleanly on an Err carrying StdoutBrokenPipe.
C18_Witness ==
    /\ CleanExit
    /\ xgiven = Err("StdoutBrokenPipe")
    /\ xexit = Some(141)
    /\ ~xprinted

\* C19: status_extended(status) is Status(status), the value kept as it is,
\* iff 0 <= status <= 255, and UncategorizedError otherwise; reported with
\* both flushes succeeding, the former exits with status and the latter with 1.
C19_StatusExtended ==
    (xstatus # None /\ xpc # "new") =>
        /\ IF 0 <= xstatus[1] /\ xstatus[1] <= 255
             THEN xgiven = Status(xstatus[1])
             ELSE xgiven = UncategorizedError
        /\ CleanExit =>
             xexit = Some(IF 0 <= xstatus[1] /\ xstatus[1] <= 255 THEN xstatus[1] ELSE 1)

\* status_extended(256) was reported and the process exited with 1.
C19_Witness ==
    /\ xstatus = Some(256)
    /\ xgiven = UncategorizedError
    /\ CleanExit
    /\ xexit = Some(1)

(***************************************************************************)
(* C20: oncall                                                             *)
(***************************************************************************)
\* the calls of the log before position i that are of a kind
EarlierCalls(i, kind) == {j \in 1..(i - 1) : bfLog[j].call = kind}

\* C20: a call of oncall succeeds iff no oncall call and no target declaration
\* came before it in the file; after an earlier oncall and no target it fails
\* mentioning 'more than once', after earlier targets and no oncall it fails
\* mentioning 'after one or more targets', after both it fails with one of
\* the two; a target declaration after a successful oncall succeeds; the
\* recorded oncall is the name of the successful call.
C20_OncallProtocol ==
    /\ \A i \in 1..Len(bfLog) :
          LET oncalls == EarlierCalls(i, "oncall")
              targets == EarlierCalls(i, "target")
          IN  IF bfLog[i].call = "oncall"
                THEN /\ bfLog[i].res = "ok" <=> (oncalls = {} /\ targets = {})
                     /\ (oncalls # {} /\ targets = {}) => bfLog[i].res = "more than once"
                     /\ (oncalls = {} /\ targets # {}) =>
                            bfLog[i].res = "after one or more targets"
                     /\ (oncalls # {} /\ targets # {}) =>
                            bfLog[i].res \in {"more than once", "after one or more targets"}
                ELSE bfLog[i].res = "ok"
    /\ bfOncall # None <=>
          (bfLog # <<>> /\ bfLog[1].call = "oncall" /\ bfOncall = Some(bfLog[1].arg))
    /\ bfError # None <=> (bfLog # <<>> /\ bfLog[Len(bfLog)].res # "ok")

\* oncall("valid") succeeded, a target was declared after it, and a further
\* oncall("twice") failed.
C20_Witness ==
    /\ Len(bfLog) = 3
    /\ bfLog[1] = [call |-> "oncall", arg |-> "valid", res |-> "ok"]
    /\ bfLog[2] = [call |-> "target", arg |-> "rule_name", res |-> "ok"]
    /\ bfLog[3].call = "oncall" /\ bfLog[3].arg = "twice" /\ bfLog[3].res # "ok"
    /\ bfOncall = Some("valid")

(***************************************************************************)
(* C21                                                                     *)
(***************************************************************************)
\* the names of a list are pairwise distinct
Distinct(f) == \A i, j \in DOMAIN f : i # j => f[i] # f[j]

\* the set of names a list mentions
NamesOf(f) == {f[i] : i \in DOMAIN f}

\* C21 (state part): after provider(fields = <list>) the call returned a
\* provider whose field set is exactly the listed names when the names are
\* distinct, and the 'non-unique field names' error when a name is repeated.
C21_ResultOfList ==
    (pvArgs # None /\ pvArgs[1].fields.side = "left") =>
        LET f == pvArgs[1].fields.val IN
        /\ Distinct(f) =>
              /\ pvOut[1].ok
              /\ NamesOf(pvOut[1].field_names) = NamesOf(f)
              /\ Len(pvOut[1].field_names) = Len(f)
              /\ pvMade # <<>> /\ pvMade[Len(pvMade)] = pvOut[1]
        /\ ~Distinct(f) =>
              /\ ~pvOut[1].ok
              /\ pvOut[1].error = "non-unique field names"

\* C21 (step part): a call that fails creates no provider, a call that
\* succeeds creates exactly one.
C21_ProviderSteps ==
    [][pvOut' # None =>
          IF pvOut'[1].ok THEN Len(pvMade') = Len(pvMade) + 1
                          ELSE pvMade' = pvMade]_vars

C22_OneEntryPerDependent ==
    \A d \in Dependents : Len(rdeps[1][d]) <= 1

(***************************************************************************)
(* C24                                                                     *)
(***************************************************************************)
\* C24 (safety part): while at least one guard returned by rdeps() is held,
\* no add_rdep on that node takes effect: the map does not change.
C24_GuardFreezesMap ==
    [][readers[1] # {} => (rdeps'[1] = rdeps[1] /\ made'[1] = made[1])]_vars

\* C24 (liveness part): an add_rdep blocked at the lock completes once every
\* guard has been released.
C24_BlockedCompletes ==
    (wrWaiting[1] # {} /\ readers[1] = {}) ~> (wrWaiting[1] = {})

\* C24: rdeps() gives a read-locked view: while a guard is held no add_rdep
\* on the node takes effect, several guards may be held at once, and a
\* blocked add_rdep completes once every guard has been released.
C24_ReadLockedView == C24_GuardFreezesMap /\ C24_BlockedCompletes

\* C24 witness: two walkers hold a guard at once, one of them with entries
\* still to visit, while an add_rdep that would insert a new entry is blocked
C24_Witness ==
    /\ readers[1] = Walkers
    /\ \E w \in Walkers : wpos[w] < Len(RdepEntries(1))
    /\ \E d \in Dependents, v \in GuardVersions :
          <<d, v>> \in wrWaiting[1] /\ rdeps[1][d] = <<>>

(***************************************************************************)
(* C23                                                                     *)
(***************************************************************************)
\* the entries recorded for dependent d: the key and version of every slot
EntriesFor(d) ==
    [i \in 1..Len(rdeps[1][d]) |-> <<rdeps[1][d][i].key, rdeps[1][d][i].ver>>]

\* C23 (frame part): the entries of a dependent change only in a step that
\* is add_rdep(D, v) for that very dependent D, and such a step leaves the
\* entries of every other dependent as they were.
OthersUnchanged ==
    \A d \in Dependents :
        EntriesFor(d)' # EntriesFor(d) =>
            /\ lastRdep'[1] # None /\ lastRdep'[1][1][1] = d
            /\ \A d2 \in Dependents \ {d} : EntriesFor(d2)' = EntriesFor(d2)

\* C23 (no removal part): no entry is removed: every slot stays, with its
\* key, so the number of entries never decreases.
NoEntryRemoved ==
    /\ \A d \in Dependents :
          /\ Len(rdeps'[1][d]) >= Len(rdeps[1][d])
          /\ \A i \in 1..Len(rdeps[1][d]) : rdeps'[1][d][i].key = rdeps[1][d][i].key
    /\ Len(RdepEntries(1))' >= Len(RdepEntries(1))

\* C23: add_rdep(D, v) changes at most the entry for D, no entry is ever
\* removed by add_rdep or by rdeps(), and entries whose weak reference is
\* dead stay in the map, so the number of entries never decreases. Every
\* step (add_rdep, rdeps(), a walk step, the drop of a dependent) either
\* leaves the map as it was or satisfies both parts.
C23_AddRdepFrame ==
    [][rdeps'[1] = rdeps[1] \/ (OthersUnchanged /\ NoEntryRemoved)]_vars

\* C23 witness: the entry of a dropped dependent is still in the map after a
\* walk over rdeps() and a later add_rdep for another dependent
C23_Witness ==
    \E d, d2 \in Dependents :
        /\ d # d2
        /\ strong[d] = 0 /\ Len(rdeps[1][d]) >= 1
        /\ wver[1] # 0 /\ wpc[1] = "idle"
        /\ Len(rdeps[1][d2]) >= 1
        /\ \E v \in VersionNumbers : lastRdep[1] = Some(<<d2, v>>)

(***************************************************************************)
(* C25                                                                     *)
(***************************************************************************)
\* C25 (final part): the list a holder obtained is still what it was when
\* it was handed out, whatever add_deps calls came later.
C25_HandedOutListFinal ==
    \A h \in Holders : held[h] # None => arcs[held[h][1].arc] = held[h][1].seen

\* C25 (no mix part): what a reader sees is the version and the list of one
\* single add_deps call that was made.
C25_OneSingleCall ==
    /\ deps[1] # None =>
          \E c \in issued[1] : deps[1][1].v = c.v /\ arcs[deps[1][1]] = c.d
    /\ \A h \in Holders : held[h] # None =>
          \E c \in issued[1] :
              /\ held[h][1].seen = c.d
              /\ held[h][1].via = "debug_deps" => held[h][1].ver = c.v

\* C25 (replace part): an add_deps that changes the snapshot stores another
\* list and leaves every existing list as it was.
C25_ReplacedNotMutated ==
    [][deps'[1] # deps[1] => arcs' = arcs]_vars

\* C25: a forward-dependency snapshot is final once written: a list obtained
\* from deps() is never modified afterwards, a later add_deps replaces the
\* stored snapshot with a new list rather than mutating the one handed out,
\* and readers see the version and the list of one single add_deps call.
C25_SnapshotFinal ==
    /\ []C25_HandedOutListFinal
    /\ []C25_OneSingleCall
    /\ C25_ReplacedNotMutated

\* C25 witness: a holder still has the list of an older snapshot after a
\* later add_deps replaced it with a different list
C25_Witness ==
    \E h \in Holders :
        /\ held[h] # None /\ deps[1] # None
        /\ held[h][1].arc # deps[1][1]
        /\ held[h][1].seen # arcs[deps[1][1]]
        /\ held[h][1].arc.v < deps[1][1].v

(***************************************************************************)
(* C26                                                                     *)
(***************************************************************************)
\* C26 (computed part): two computed edges compare equal iff they have the
\* same target key and the same version.
C26_ComputedEqByKeyAndVersion ==
    (edgeForm = "computed" /\ eqComputed # None) =>
        (eqComputed[1] <=> (/\ edgeA.key.ty = edgeB.key.ty
                            /\ edgeA.key.id = edgeB.key.id
                            /\ edgeA.ver = edgeB.ver))

\* C26 (converted part): two observations of the same key that were unequal
\* as computed edges because their versions differ convert into Dependency
\* edges that compare equal.
C26_ConvertedEqualByKey ==
    (edgeForm = "stored" /\ eqOut # None /\ eqComputed # None) =>
        /\ eqComputed[1] => eqOut[1]
        /\ (edgeA.key = edgeB.key /\ edgeA.ver # edgeB.ver) =>
              (~eqComputed[1] /\ eqOut[1])

\* C26: computed-edge equality includes the version: two ComputedDependency
\* values compare equal iff they have the same target key and the same
\* VersionNumber, so two observations of one key at different versions are
\* unequal as computed edges although the Dependency edges they convert into
\* compare equal.
C26_ComputedEqIncludesVersion ==
    C26_ComputedEqByKeyAndVersion /\ C26_ConvertedEqualByKey

\* C26 witness: the same key observed at two versions compared unequal as
\* computed edges and equal once converted
C26_Witness ==
    /\ edgeForm = "stored"
    /\ edgeA.key = edgeB.key /\ edgeA.ver # edgeB.ver
    /\ eqComputed = Some(FALSE)
    /\ eqOut = Some(TRUE)

(***************************************************************************)
(* C27                                                                     *)
(***************************************************************************)
\* the process is gone: it exited, or its image was replaced by execv
Ended == xpc \in {"exited", "replaced"}

\* execv was called and returned an error, which was reported
ExecvFailed == xgiven = Exec /\ xres.tag = "Err"

\* C27 (termination part): report() always ends in a process exit or in the
\* process image being replaced.
C27_AlwaysEnds == (xpc = "report") ~> Ended

\* C27 (recursion part): report() is called again only from the Exec branch,
\* only once, and only on a Status or an Err value.
C27_NestedOnStatusOrErr ==
    [][xnest' # xnest =>
          /\ xres = Exec /\ xpc = "report" /\ xpc' = "report"
          /\ xres'.tag \in {"Status", "Err"}]_vars

C27_DepthAtMostOne == xnest <= 1

\* C27 (replacement part): only the Exec branch ends without an exit code.
C27_ReplacedOnlyByExec ==
    /\ xpc = "replaced" => (xgiven = Exec /\ xexit = None)
    /\ xpc = "exited" => xexit # None

\* C27 as stated: report always ends in a process exit or, for Exec, in the
\* process image being replaced; the Exec branch calls report again only on a
\* Status or Err value, so the recursion depth is at most one; when execv
\* fails the process exits with code 1.
C27_ReportEnds ==
    /\ C27_AlwaysEnds
    /\ C27_NestedOnStatusOrErr
    /\ []C27_DepthAtMostOne
    /\ []C27_ReplacedOnlyByExec
    /\ []((ExecvFailed /\ xpc = "exited") => xexit = Some(1))

\* C27 amended: as above, but when execv fails the exit code computed from
\* the error is 1 and the process exits with 1 only if both flushes succeed;
\* if the flush of stdout or of stderr fails it exits with 141.
C27_ReportEndsAmended ==
    /\ C27_AlwaysEnds
    /\ C27_NestedOnStatusOrErr
    /\ []C27_DepthAtMostOne
    /\ []C27_ReplacedOnlyByExec
    /\ []((ExecvFailed /\ xpc = "exited") =>
            xexit = Some(IF xout = "ok" /\ xerr = "ok" THEN 1 ELSE 141))

\* C27 witness: execv failed, the error was reported by the nested call and
\* the process exited with 1 after two successful flushes
C27_Witness ==
    /\ ExecvFailed
    /\ xpc = "exited"
    /\ xprinted /\ xnest = 1
    /\ xout = "ok" /\ xerr = "ok"
    /\ xexit = Some(1)

(***************************************************************************)
(* C28                                                                     *)
(***************************************************************************)
\* the exit code the match of the report() call that reached the flushes
\* computed from its variant
CodeOfVariant ==
    CASE xres.tag = "Status" -> xres.v
      [] xres.tag = "UncategorizedError" -> 1
      [] xres = Err("SignalInterrupt") -> 130
      [] xres.tag = "Err" /\ xres.e \in FailureExitCodes \ {"SignalInterrupt"} -> 141
      [] OTHER -> 1

\* C28: a failed flush of stdout or of stderr overrides the exit code
\* computed from the variant: the process then exits with 141 whatever the
\* variant was, including Status(0); when both flushes succeed the computed
\* code is used unchanged.
C28_FlushFailureOverrides ==
    xpc = "exited" =>
        IF xout = "err" \/ xerr = "err"
          THEN xexit = Some(141)
          ELSE xexit = Some(CodeOfVariant)

\* C28 witness: Status(0) was reported, the flush of stdout succeeded, the
\* flush of stderr failed and the process exited with 141
C28_Witness ==
    /\ xpc = "exited"
    /\ xgiven = Status(0)
    /\ xout = "ok" /\ xerr = "err"
    /\ xexit = Some(141)

====
